---- MODULE Spec2Model ----
(***************************************************************************)
(* State machine of the vuokraovi-bot deduplication store: the in-memory   *)
(* registry BotState (Users, KnownOffers, LastUpdated), the snapshot file  *)
(* bot_state.json, and the operations of BotState, as package state has    *)
(* them and as the single-package bot.go has them; the start of the        *)
(* process in RunBot; and the paginated fetch of WebSite.FetchRentalOffers.*)
(* Link strings are sequences of one-character strings, so that cleanURL   *)
(* and the JSON encoding are computed the way the code computes them.      *)
(***************************************************************************)
EXTENDS Integers, Sequences, FiniteSets, TLC

VARIABLES
    Users,        \* BotState.Users: chat id -> UserState
    KnownOffers,  \* BotState.KnownOffers: link -> RentalOffer
    LastUpdated,  \* BotState.LastUpdated
    mutex,        \* BotState.mutex: the goroutine that holds it, or Unlocked
    disk,         \* the file <saveDir>/bot_state.json
    now,          \* the wall clock read by time.Now(), in days
    pc,           \* where each goroutine is inside the operation it is running
    local,        \* the arguments and local variables of that operation
    call,         \* the operation that returned last, with its arguments
    offersArg,    \* the input of the latest UpdateOffers call since the last LoadState
    ret,          \* what the operation that returned last handed to its caller
    saveErr,      \* what the snapshot write inside that operation returned
    bot,          \* RunBot: how far the start of the process has got
    fetch,        \* WebSite.FetchRentalOffers: the run in progress or returned last
    loop,         \* periodicUpdate: the loop, its first update and its tick update
    clean,        \* cleanURL: a link, and what cleanURL returned for it
    redirect      \* http.Client.Do: the request chain in progress or ended last

vars == <<Users, KnownOffers, LastUpdated, mutex, disk, now, pc, local,
          call, offersArg, ret, saveErr, bot, fetch, loop, clean, redirect>>

----------------------------------------------------------------------------
(* Bounds of the model *)

MaxOffers == 2      \* longest listing sequence handed to UpdateOffers
MaxElapsed == 31    \* the clock stops this many days after StartDay
MaxChain == 5       \* most pages a result chain of the web site has
MaxPagesArg == 3    \* largest maxPages handed to FetchRentalOffers
MaxPageNum == 7     \* with no page limit, a run is followed up to this page number
MaxUrlLen == 4      \* the longest link given to cleanURL
MaxRedirects == 12  \* most redirect responses a server gives before its final response
WaitStep == 10      \* seconds that pass in one step of the clock of periodicUpdate
StartDay == 100     \* the day on which the process starts (days since the zero time)

(* Program constants *)

RedirectLimit == 10 \* "if len(via) >= 10" in CheckRedirect
NotifyLimit == 10   \* "if i >= 10" in notifyUsers
GraceSeconds == 30  \* "case <-time.After(30 * time.Second)"
InactiveDays == 30  \* CleanupInactiveUsers: now.AddDate(0, 0, -30)

ZeroTime == 0       \* time.Time{}

----------------------------------------------------------------------------
(* Strings *)

EmptyStr == << >>

\* strings.Index(url, "?"): the first position holding '?', 0 when there is none
IndexQ(url) ==
    IF \E i \in 1..Len(url) : url[i] = "?"
    THEN CHOOSE i \in 1..Len(url) : url[i] = "?" /\ \A j \in 1..(i-1) : url[j] # "?"
    ELSE 0

\* cleanURL cutting at the last '?' of the link
cleanURLLastQuery(url) ==
    IF \E i \in 1..Len(url) : url[i] = "?"
    THEN SubSeq(url, 1, (CHOOSE i \in 1..Len(url) :
                            url[i] = "?" /\ \A j \in (i+1)..Len(url) : url[j] # "?") - 1)
    ELSE url

cleanURLKeepsQuery(url) == url

cleanURL(url) ==
    LET pos == IndexQ(url)
    IN  IF pos = 0 THEN url ELSE SubSeq(url, 1, pos - 1)

\* encoding/json writes a string coerced to valid UTF-8: every invalid byte
\* becomes the replacement rune U+FFFD
InvalidBytes == {"0xFF"}

jsonStringVerbatim(str) == str

jsonString(str) ==
    [i \in 1..Len(str) |-> IF str[i] \in InvalidBytes THEN "U+FFFD" ELSE str[i]]

----------------------------------------------------------------------------
(* Maps *)

EmptyMap == [x \in {} |-> x]

MapPut(m, k, v) == [x \in (DOMAIN m) \cup {k} |-> IF x = k THEN v ELSE m[x]]

MapDelete(m, ks) == [x \in (DOMAIN m) \ ks |-> m[x]]

SeqUpTo(S, n) == UNION {[1..k -> S] : k \in 0..n}

----------------------------------------------------------------------------
(* Sample values the operations are called with *)

Offer(link, price) ==
    [Title |-> "", Address |-> "", Price |-> price, Size |-> "", Rooms |-> "",
     Available |-> "", Link |-> link]

LinkAX == <<"a", "?", "x">>
LinkAY == <<"a", "?", "y">>
LinkA  == <<"a">>
LinkB  == <<"b">>
LinkQ  == <<"?", "x">>
LinkBad == <<"c", "0xFF">>   \* a link holding a byte that is not valid UTF-8

Links == {LinkAX, LinkAY, LinkA, LinkB, LinkQ, EmptyStr}

\* two listings of the same page under different query strings, one other page,
\* and a listing whose link is a bare query string
Offers == {Offer(LinkAX, "700"), Offer(LinkAY, "800"), Offer(LinkB, "700"),
           Offer(LinkQ, "700")}

OfferInputs == SeqUpTo(Offers, MaxOffers)

ChatIDs == {1, 2}

TgUser(name) == [UserName |-> name, FirstName |-> name, LastName |-> name]

TgUsers == {TgUser("n1")}

----------------------------------------------------------------------------
(* The snapshot file *)

NoFile == [exists |-> FALSE, parses |-> FALSE, users |-> EmptyMap,
           known_offers |-> EmptyMap, last_updated |-> ZeroTime]

CorruptFile == [exists |-> TRUE, parses |-> FALSE, users |-> EmptyMap,
                known_offers |-> EmptyMap, last_updated |-> ZeroTime]

Snapshot(users, known, updated) ==
    [exists |-> TRUE, parses |-> TRUE, users |-> users,
     known_offers |-> known, last_updated |-> updated]

\* The listing maps the loop "for k, v := range m { c := cleanURL(k); if c != ""
\* && v.Link != "" { out[c] = v } }" can build: Go ranges over a map in no fixed
\* order, so of two keys with one canonical link either entry may be written last.
ValidKeys(m) == {k \in DOMAIN m : cleanURL(k) # EmptyStr /\ m[k].Link # EmptyStr}

\* the maps that hold, under to[k], the entry of one of the keys k that to sends
\* there: one map when to sends no two keys to one place
Rekey(m, to) ==
    LET keys == DOMAIN to
        dom == {to[k] : k \in keys}
    IN  IF \A k1, k2 \in keys : to[k1] = to[k2] => k1 = k2
        THEN {[c \in dom |-> m[CHOOSE k \in keys : to[k] = c]]}
        ELSE {g \in [dom -> {m[k] : k \in keys}] :
                 \A c \in dom : \E k \in keys : to[k] = c /\ g[c] = m[k]}

CleanOffers(m) == Rekey(m, [k \in ValidKeys(m) |-> cleanURL(k)])

\* ValidSeenOffers looking up the link as stored, not the cleaned link
ValidSeenOffersRawTest(seen, known) ==
    {cleanURL(link) : link \in {l \in seen : l \in DOMAIN known}}

\* ValidSeenOffers with the test of the link inverted
ValidSeenOffersInverted(seen, known) ==
    {cleanURL(l) : l \in {x \in seen : cleanURL(x) \notin DOMAIN known}}

\* the validSeenOffers loop: canonical links that are keys of the cleaned map
ValidSeenOffers(seen, known) ==
    {cleanURL(link) : link \in {l \in seen : cleanURL(l) \in DOMAIN known}}

\* a nil *UserState: "null" in the file
NilUser == [nil |-> TRUE]

\* the loop over the users: nil users skipped, the others copied with their
\* valid seen offers
CleanUsers(users, known) ==
    [id \in {k \in DOMAIN users : users[k] # NilUser} |->
        [users[id] EXCEPT !.SeenOffers = ValidSeenOffers(users[id].SeenOffers, known)]]

\* json.MarshalIndent of the copy, as json.Unmarshal reads it back: every link is
\* written as a JSON string (the other strings of the model are valid UTF-8)
MarshalOffers(known) ==
    {[c \in DOMAIN g |-> [g[c] EXCEPT !.Link = jsonString(@)]] :
        g \in Rekey(known, [k \in DOMAIN known |-> jsonString(k)])}

MarshalUsers(users) ==
    [id \in DOMAIN users |->
        [users[id] EXCEPT !.SeenOffers = {jsonString(l) : l \in @}]]

----------------------------------------------------------------------------
(* What the caller observes *)

NoErr == "nil"
ErrMkdir == "failed to create data directory"
ErrWrite == "failed to write bot state file"
ErrRead == "failed to read bot state file"
ErrUnmarshal == "failed to unmarshal bot state"
NotSaved == "not called"

Call(name, chatID, link, enabled) ==
    [name |-> name, chatID |-> chatID, link |-> link, enabled |-> enabled]

Ret(newOffers, found, err) == [newOffers |-> newOffers, found |-> found, err |-> err]

\* offersArg: the listings of the latest UpdateOffers call, and whether the call
\* before it, with no LoadState in between, was given the same listings
NoInput == [given |-> FALSE, offers |-> << >>, repeated |-> FALSE]

Input(offers, repeated) == [given |-> TRUE, offers |-> offers, repeated |-> repeated]

\* what the file system does to one snapshot write: MkdirAll fails, os.WriteFile
\* fails to open the file, os.WriteFile fails after truncating it, or all succeed
SaveOutcomes == {"ok", "mkdirErr", "openErr", "writeErr"}

----------------------------------------------------------------------------
(* The goroutines that share the store *)

Threads == {"periodic", "handler"}

Unlocked == "unlocked"

\* the arguments of the operation a goroutine runs, the result it has computed
\* (newOffers) and the file it has read (data)
Request(op, chatID, link, offers) ==
    [op |-> op, chatID |-> chatID, link |-> link, offers |-> offers,
     newOffers |-> << >>, data |-> NoFile]

NoRequest == Request("none", 0, EmptyStr, << >>)

\* a step of a store operation called with no other goroutine inside the store;
\* the store touches neither the start of the process nor the web site
sequential ==
    /\ \A t \in Threads : pc[t] = "idle"
    /\ UNCHANGED <<mutex, pc, local, bot, fetch, loop, clean, redirect>>

----------------------------------------------------------------------------
(* The process and the web site before RunBot and before any fetch *)

\* bot.run: RunBot not called yet, RunBot past "go periodicUpdate" and in its
\* loop over the updates channel, or RunBot returned with bot.err
BotStatus(run, err) == [run |-> run, err |-> err]

NotStarted == BotStatus("not started", "nil")

\* fetch: no call of FetchRentalOffers yet. events are the requests sent and
\* the sleeps made by the run, in order; nextPageURL 0 is the empty string
NoFetch == [pc |-> "none", site |-> << >>, formData |-> "", maxPages |-> 0,
            events |-> << >>, allOffers |-> << >>, nextPageURL |-> 0, pageNum |-> 0,
            err |-> "nil"]

\* redirect: no request sent. chain is the number of redirect responses the
\* server gives before the final one, via the number of requests sent
NoRedirect == [pc |-> "none", method |-> "", chain |-> 0, via |-> 0, err |-> "nil"]

\* clean: cleanURL not called. url is the link, out what cleanURL returned for
\* it, again what it returned for out, calls the number of calls made
NoClean == [url |-> << >>, out |-> << >>, again |-> << >>, calls |-> 0]

\* loop: periodicUpdate not started. main is where periodicUpdate is, initial
\* and tick are the updateAndNotify of the first update and of the ticker
\* update, waited the seconds spent in the select on the first update
NoLoop == [main |-> "none", initial |-> "none", tick |-> "idle", waited |-> 0]

----------------------------------------------------------------------------
(* NewBotState on a data directory with no snapshot file *)

Init ==
    /\ Users = EmptyMap
    /\ KnownOffers = EmptyMap
    /\ LastUpdated = StartDay
    /\ mutex = Unlocked
    /\ disk = NoFile
    /\ now = StartDay
    /\ pc = [t \in Threads |-> "idle"]
    /\ local = [t \in Threads |-> NoRequest]
    /\ call = Call("NewBotState", 0, EmptyStr, FALSE)
    /\ offersArg = NoInput
    /\ ret = Ret(<< >>, FALSE, NoErr)
    /\ saveErr = NotSaved
    /\ bot = NotStarted
    /\ fetch = NoFetch
    /\ loop = NoLoop
    /\ clean = NoClean
    /\ redirect = NoRedirect

----------------------------------------------------------------------------
(* saveState: normalise a copy of the state, then write it *)

SaveError(outcome) ==
    CASE outcome = "ok" -> NoErr
      [] outcome = "mkdirErr" -> ErrMkdir
      [] OTHER -> ErrWrite

\* saveState handing bs itself, not the cleaned copy, to json.MarshalIndent
StateCopiesRaw(users, known, updated) ==
    {Snapshot(MarshalUsers(users), j, updated) : j \in MarshalOffers(known)}

\* the files json.MarshalIndent(stateCopy) can be
StateCopies(users, known, updated) ==
    UNION {{Snapshot(MarshalUsers(CleanUsers(users, k)), j, updated) :
               j \in MarshalOffers(k)} : k \in CleanOffers(known)}

saveState(outcome, users, known, updated) ==
    \E data \in StateCopies(users, known, updated) :
        /\ disk' = CASE outcome = "ok" -> data
                     [] outcome = "writeErr" -> CorruptFile
                     [] OTHER -> disk
        /\ saveErr' = SaveError(outcome)

noSave ==
    /\ disk' = disk
    /\ saveErr' = NotSaved

----------------------------------------------------------------------------
(* LoadState *)

\* the error LoadState returns for the file data, read with or without success
LoadError(data, readOK) ==
    IF ~data.exists THEN NoErr
    ELSE IF ~readOK THEN ErrRead
    ELSE IF ~data.parses THEN ErrUnmarshal
    ELSE NoErr

\* lastUpdated after LoadState of data
LoadedLastUpdated(data) ==
    IF data.exists /\ data.parses /\ data.last_updated # ZeroTime
    THEN data.last_updated ELSE now

\* LoadState returning nil for a missing file without emptying the maps
LoadStateBodyKeepsMemory(readOK) ==
    IF ~disk.exists \/ ~readOK
    THEN UNCHANGED <<Users, KnownOffers, LastUpdated>>
    ELSE IF ~disk.parses
    THEN /\ Users' = EmptyMap
         /\ KnownOffers' = EmptyMap
         /\ LastUpdated' = now
    ELSE /\ \E k \in CleanOffers(disk.known_offers) :
               /\ KnownOffers' = k
               /\ Users' = CleanUsers(disk.users, k)
         /\ LastUpdated' = LoadedLastUpdated(disk)

\* the memory LoadState leaves
LoadStateBody(readOK) ==
    IF disk.exists /\ ~readOK
    THEN UNCHANGED <<Users, KnownOffers, LastUpdated>>
    ELSE IF ~disk.exists \/ ~disk.parses
    THEN /\ Users' = EmptyMap
         /\ KnownOffers' = EmptyMap
         /\ LastUpdated' = now
    ELSE /\ \E k \in CleanOffers(disk.known_offers) :
               /\ KnownOffers' = k
               /\ Users' = CleanUsers(disk.users, k)
         /\ LastUpdated' = LoadedLastUpdated(disk)

LoadState(readOK) ==
    /\ sequential
    /\ LoadStateBody(readOK)
    /\ noSave
    /\ call' = Call("LoadState", 0, EmptyStr, FALSE)
    /\ offersArg' = NoInput
    /\ ret' = Ret(<< >>, FALSE, LoadError(disk, readOK))
    /\ UNCHANGED now

----------------------------------------------------------------------------
(* What each operation does to the memory between Lock and the snapshot write *)

NewUserState(user, chatID) ==
    [ChatID |-> chatID, Username |-> user.UserName, FirstName |-> user.FirstName,
     LastName |-> user.LastName, LastNotified |-> ZeroTime, SeenOffers |-> {},
     Notifications |-> TRUE]

\* AddUser storing a new UserState also when the chat id is there already
AddUserBodyReplaces(user, chatID) ==
    /\ Users' = IF chatID \notin DOMAIN Users
                THEN MapPut(Users, chatID, NewUserState(user, chatID))
                ELSE [Users EXCEPT ![chatID] = NewUserState(user, chatID)]
    /\ UNCHANGED <<KnownOffers, LastUpdated>>

AddUserBody(user, chatID) ==
    /\ Users' = IF chatID \notin DOMAIN Users
                THEN MapPut(Users, chatID, NewUserState(user, chatID))
                ELSE [Users EXCEPT ![chatID].Username = user.UserName,
                                   ![chatID].FirstName = user.FirstName,
                                   ![chatID].LastName = user.LastName]
    /\ UNCHANGED <<KnownOffers, LastUpdated>>

\* UpdateLoop with the existence test dropped: a known listing is overwritten
RECURSIVE UpdateLoopOverwrite(_, _, _, _)
UpdateLoopOverwrite(offers, i, known, new) ==
    IF i > Len(offers)
    THEN [KnownOffers |-> known, newOffers |-> new]
    ELSE LET offer     == offers[i]
             cleanLink == cleanURL(offer.Link)
             offerCopy == [offer EXCEPT !.Link = cleanLink]
         IN  IF cleanLink # EmptyStr
             THEN UpdateLoopOverwrite(offers, i + 1, MapPut(known, cleanLink, offerCopy),
                      IF cleanLink \notin DOMAIN known THEN Append(new, offerCopy) ELSE new)
             ELSE UpdateLoopOverwrite(offers, i + 1, known, new)

\* UpdateLoop storing the new listing under the link as given, query string included
RECURSIVE UpdateLoopRawKey(_, _, _, _)
UpdateLoopRawKey(offers, i, known, new) ==
    IF i > Len(offers)
    THEN [KnownOffers |-> known, newOffers |-> new]
    ELSE LET offer     == offers[i]
             cleanLink == cleanURL(offer.Link)
             offerCopy == [offer EXCEPT !.Link = cleanLink]
         IN  IF cleanLink # EmptyStr /\ cleanLink \notin DOMAIN known
             THEN UpdateLoopRawKey(offers, i + 1, MapPut(known, offer.Link, offerCopy),
                                   Append(new, offerCopy))
             ELSE UpdateLoopRawKey(offers, i + 1, known, new)

\* UpdateLoop with the new listing put in front of the result instead of appended
RECURSIVE UpdateLoopPrepend(_, _, _, _)
UpdateLoopPrepend(offers, i, known, new) ==
    IF i > Len(offers)
    THEN [KnownOffers |-> known, newOffers |-> new]
    ELSE LET offer     == offers[i]
             cleanLink == cleanURL(offer.Link)
             offerCopy == [offer EXCEPT !.Link = cleanLink]
         IN  IF cleanLink # EmptyStr /\ cleanLink \notin DOMAIN known
             THEN UpdateLoopPrepend(offers, i + 1, MapPut(known, cleanLink, offerCopy),
                                    <<offerCopy>> \o new)
             ELSE UpdateLoopPrepend(offers, i + 1, known, new)

\* UpdateLoop returning every listing with a link as new, known or not
RECURSIVE UpdateLoopAllNew(_, _, _, _)
UpdateLoopAllNew(offers, i, known, new) ==
    IF i > Len(offers)
    THEN [KnownOffers |-> known, newOffers |-> new]
    ELSE LET offer     == offers[i]
             cleanLink == cleanURL(offer.Link)
             offerCopy == [offer EXCEPT !.Link = cleanLink]
         IN  IF cleanLink # EmptyStr
             THEN UpdateLoopAllNew(offers, i + 1,
                      IF cleanLink \notin DOMAIN known
                      THEN MapPut(known, cleanLink, offerCopy) ELSE known,
                      Append(new, offerCopy))
             ELSE UpdateLoopAllNew(offers, i + 1, known, new)

\* the loop of UpdateOffers over offers[i..], from the map known and the slice new
RECURSIVE UpdateLoop(_, _, _, _)
UpdateLoop(offers, i, known, new) ==
    IF i > Len(offers)
    THEN [KnownOffers |-> known, newOffers |-> new]
    ELSE LET offer     == offers[i]
             cleanLink == cleanURL(offer.Link)
             offerCopy == [offer EXCEPT !.Link = cleanLink]
         IN  IF cleanLink # EmptyStr /\ cleanLink \notin DOMAIN known
             THEN UpdateLoop(offers, i + 1, MapPut(known, cleanLink, offerCopy),
                             Append(new, offerCopy))
             ELSE UpdateLoop(offers, i + 1, known, new)

UpdateOffersBody(offers) ==
    /\ KnownOffers' = UpdateLoop(offers, 1, KnownOffers, << >>).KnownOffers
    /\ LastUpdated' = now
    /\ UNCHANGED Users

\* ResetUserState switching the notifications back on as well
ResetUserStateBodyEnables(chatID) ==
    /\ Users' = IF chatID \in DOMAIN Users
                THEN [Users EXCEPT ![chatID].SeenOffers = {},
                                   ![chatID].LastNotified = ZeroTime,
                                   ![chatID].Notifications = TRUE]
                ELSE Users
    /\ UNCHANGED <<KnownOffers, LastUpdated>>

ResetUserStateBody(chatID) ==
    /\ Users' = IF chatID \in DOMAIN Users
                THEN [Users EXCEPT ![chatID].SeenOffers = {},
                                   ![chatID].LastNotified = ZeroTime]
                ELSE Users
    /\ UNCHANGED <<KnownOffers, LastUpdated>>

\* SetUserNotifications flipping the flag instead of storing the argument
SetUserNotificationsBodyToggles(chatID, enabled) ==
    /\ Users' = IF chatID \in DOMAIN Users
                THEN [Users EXCEPT ![chatID].Notifications = ~@]
                ELSE Users
    /\ UNCHANGED <<KnownOffers, LastUpdated>>

SetUserNotificationsBody(chatID, enabled) ==
    /\ Users' = IF chatID \in DOMAIN Users
                THEN [Users EXCEPT ![chatID].Notifications = enabled]
                ELSE Users
    /\ UNCHANGED <<KnownOffers, LastUpdated>>

\* MarkOfferAsSeen storing the link as given, query string included
MarkOfferAsSeenBodyRaw(chatID, offerLink) ==
    /\ Users' = IF chatID \in DOMAIN Users
                THEN [Users EXCEPT ![chatID].SeenOffers = @ \cup {offerLink}]
                ELSE Users
    /\ UNCHANGED <<KnownOffers, LastUpdated>>

MarkOfferAsSeenBody(chatID, offerLink) ==
    /\ Users' = IF chatID \in DOMAIN Users
                THEN [Users EXCEPT ![chatID].SeenOffers = @ \cup {cleanURL(offerLink)}]
                ELSE Users
    /\ UNCHANGED <<KnownOffers, LastUpdated>>

UpdateUserLastNotifiedBody(chatID, t) ==
    /\ Users' = IF chatID \in DOMAIN Users
                THEN [Users EXCEPT ![chatID].LastNotified = t]
                ELSE Users
    /\ UNCHANGED <<KnownOffers, LastUpdated>>

\* CleanupInactiveUsers removing also the user notified exactly 30 days ago
CleanupInactiveUsersBodyInclusive ==
    LET inactiveThreshold == now - InactiveDays
        inactive == {id \in DOMAIN Users : Users[id].LastNotified <= inactiveThreshold}
    IN  /\ Users' = MapDelete(Users, inactive)
        /\ UNCHANGED <<KnownOffers, LastUpdated>>

CleanupInactiveUsersBody ==
    LET inactiveThreshold == now - InactiveDays
        inactive == {id \in DOMAIN Users : Users[id].LastNotified < inactiveThreshold}
    IN  /\ Users' = MapDelete(Users, inactive)
        /\ UNCHANGED <<KnownOffers, LastUpdated>>

----------------------------------------------------------------------------
(* The operations of package state, each from Lock to Unlock *)

AddUser(user, chatID, outcome) ==
    /\ sequential
    /\ AddUserBody(user, chatID)
    /\ saveState(outcome, Users', KnownOffers', LastUpdated')
    /\ call' = Call("AddUser", chatID, EmptyStr, FALSE)
    /\ ret' = Ret(<< >>, TRUE, NoErr)
    /\ UNCHANGED <<now, offersArg>>

\* UpdateOffers committing to the memory only what it could write to the file
UpdateOffersRollback(offers, outcome) ==
    /\ sequential
    /\ IF outcome = "ok"
       THEN UpdateOffersBody(offers)
       ELSE UNCHANGED <<Users, KnownOffers, LastUpdated>>
    /\ saveState(outcome, Users', KnownOffers', LastUpdated')
    /\ call' = Call("UpdateOffers", 0, EmptyStr, FALSE)
    /\ offersArg' = Input(offers, offersArg.given /\ offersArg.offers = offers)
    /\ ret' = Ret(UpdateLoop(offers, 1, KnownOffers, << >>).newOffers, FALSE, NoErr)
    /\ UNCHANGED now

UpdateOffers(offers, outcome) ==
    /\ sequential
    /\ UpdateOffersBody(offers)
    /\ saveState(outcome, Users', KnownOffers', LastUpdated')
    /\ call' = Call("UpdateOffers", 0, EmptyStr, FALSE)
    /\ offersArg' = Input(offers, offersArg.given /\ offersArg.offers = offers)
    /\ ret' = Ret(UpdateLoop(offers, 1, KnownOffers, << >>).newOffers, FALSE, NoErr)
    /\ UNCHANGED now

ResetUserState(chatID, outcome) ==
    /\ sequential
    /\ ResetUserStateBody(chatID)
    /\ IF chatID \in DOMAIN Users
       THEN saveState(outcome, Users', KnownOffers', LastUpdated')
       ELSE outcome = "ok" /\ noSave
    /\ call' = Call("ResetUserState", chatID, EmptyStr, FALSE)
    /\ ret' = Ret(<< >>, FALSE, NoErr)
    /\ UNCHANGED <<now, offersArg>>

SetUserNotifications(chatID, enabled, outcome) ==
    /\ sequential
    /\ SetUserNotificationsBody(chatID, enabled)
    /\ IF chatID \in DOMAIN Users
       THEN saveState(outcome, Users', KnownOffers', LastUpdated')
       ELSE outcome = "ok" /\ noSave
    /\ call' = Call("SetUserNotifications", chatID, EmptyStr, enabled)
    /\ ret' = Ret(<< >>, chatID \in DOMAIN Users, NoErr)
    /\ UNCHANGED <<now, offersArg>>

MarkOfferAsSeen(chatID, offerLink, outcome) ==
    /\ sequential
    /\ MarkOfferAsSeenBody(chatID, offerLink)
    /\ saveState(outcome, Users', KnownOffers', LastUpdated')
    /\ call' = Call("MarkOfferAsSeen", chatID, offerLink, FALSE)
    /\ ret' = Ret(<< >>, FALSE, NoErr)
    /\ UNCHANGED <<now, offersArg>>

UpdateUserLastNotified(chatID, t, outcome) ==
    /\ sequential
    /\ UpdateUserLastNotifiedBody(chatID, t)
    /\ saveState(outcome, Users', KnownOffers', LastUpdated')
    /\ call' = Call("UpdateUserLastNotified", chatID, EmptyStr, FALSE)
    /\ ret' = Ret(<< >>, FALSE, NoErr)
    /\ UNCHANGED <<now, offersArg>>

CleanupInactiveUsers(outcome) ==
    /\ sequential
    /\ CleanupInactiveUsersBody
    /\ saveState(outcome, Users', KnownOffers', LastUpdated')
    /\ call' = Call("CleanupInactiveUsers", 0, EmptyStr, FALSE)
    /\ ret' = Ret(<< >>, FALSE, saveErr')
    /\ UNCHANGED <<now, offersArg>>

----------------------------------------------------------------------------
(* The store called through its API, one operation at a time, by one         *)
(* subscriber; the file system may fail any write.                            *)

SomeInputs == {<<Offer(LinkAX, "700")>>, <<Offer(LinkAY, "800"), Offer(LinkB, "700")>>}

Next ==
    \/ \E u \in TgUsers, o \in SaveOutcomes : AddUser(u, 1, o)
    \/ \E offers \in SomeInputs, o \in SaveOutcomes : UpdateOffers(offers, o)
    \/ \E o \in SaveOutcomes : ResetUserState(1, o)
    \/ \E b \in BOOLEAN, o \in SaveOutcomes : SetUserNotifications(1, b, o)
    \/ \E l \in {LinkAX, LinkB}, o \in SaveOutcomes : MarkOfferAsSeen(1, l, o)
    \/ \E o \in SaveOutcomes : UpdateUserLastNotified(1, now, o)
    \/ \E o \in SaveOutcomes : CleanupInactiveUsers(o)
    \/ \E readOK \in BOOLEAN : LoadState(readOK)

Spec == Init /\ [][Next]_vars

----------------------------------------------------------------------------
(* The store fed every listing sequence up to MaxOffers, with subscriber      *)
(* operations and reloads running in between; every write succeeds.           *)

NextOffers ==
    \/ \E offers \in OfferInputs : UpdateOffers(offers, "ok")
    \/ \E u \in TgUsers : AddUser(u, 1, "ok")
    \/ ResetUserState(1, "ok")
    \/ MarkOfferAsSeen(1, LinkAX, "ok")
    \/ UpdateUserLastNotified(1, now, "ok")
    \/ CleanupInactiveUsers("ok")
    \/ LoadState(TRUE)

SpecOffers == Init /\ [][NextOffers]_vars

----------------------------------------------------------------------------
(* The store saved and loaded again, with a listing whose link holds a byte   *)
(* that is not valid UTF-8 and a link no listing has.                         *)

ReloadInputs == {<<Offer(LinkAX, "700")>>, <<Offer(LinkBad, "700")>>}

NextReload ==
    \/ \E offers \in ReloadInputs, o \in {"ok", "mkdirErr"} : UpdateOffers(offers, o)
    \/ \E u \in TgUsers, o \in {"ok", "mkdirErr"} : AddUser(u, 1, o)
    \/ \E l \in {LinkAX, LinkB, LinkBad}, o \in {"ok", "mkdirErr"} : MarkOfferAsSeen(1, l, o)
    \/ \E readOK \in BOOLEAN : LoadState(readOK)

SpecReload == Init /\ [][NextReload]_vars

----------------------------------------------------------------------------
(* Starting the process on a data directory whose snapshot file somebody has  *)
(* edited, truncated or removed, and loading such a file into a store in use. *)

ErrCreateBot == "failed to create bot"

\* RunBot of the cmd package: tgbotapi.NewBotAPI, state.NewBotState (which calls
\* LoadState on the new store), LoadState again with its error only logged, then
\* "go periodicUpdate" and the loop over the updates channel. read1 and read2
\* tell whether os.ReadFile succeeds in the first and in the second LoadState.
RunBotAbortsOnLoadError(apiOK, read1, read2) ==
    /\ \A t \in Threads : pc[t] = "idle"
    /\ bot.run = "not started"
    /\ IF ~apiOK
       THEN /\ bot' = BotStatus("failed", ErrCreateBot)
            /\ UNCHANGED <<Users, KnownOffers, LastUpdated>>
       ELSE /\ bot' = IF LoadError(disk, read2) = NoErr
                      THEN BotStatus("running", NoErr)
                      ELSE BotStatus("failed", LoadError(disk, read2))
            /\ IF disk.exists /\ ~read1 /\ ~read2
               THEN /\ Users' = EmptyMap
                    /\ KnownOffers' = EmptyMap
                    /\ LastUpdated' = now
               ELSE LoadStateBody(TRUE)
    /\ noSave
    /\ call' = Call("RunBot", 0, EmptyStr, FALSE)
    /\ offersArg' = NoInput
    /\ ret' = Ret(<< >>, FALSE, bot'.err)
    /\ UNCHANGED <<mutex, pc, local, now, fetch, loop, clean, redirect>>

RunBot(apiOK, read1, read2) ==
    /\ \A t \in Threads : pc[t] = "idle"
    /\ bot.run = "not started"
    /\ IF ~apiOK
       THEN /\ bot' = BotStatus("failed", ErrCreateBot)
            /\ UNCHANGED <<Users, KnownOffers, LastUpdated>>
       ELSE /\ bot' = BotStatus("running", NoErr)
            /\ IF disk.exists /\ ~read1 /\ ~read2
               THEN /\ Users' = EmptyMap
                    /\ KnownOffers' = EmptyMap
                    /\ LastUpdated' = now
               ELSE LoadStateBody(TRUE)
    /\ noSave
    /\ call' = Call("RunBot", 0, EmptyStr, FALSE)
    /\ offersArg' = NoInput
    /\ ret' = Ret(<< >>, FALSE, bot'.err)
    /\ UNCHANGED <<mutex, pc, local, now, fetch, loop, clean, redirect>>

\* listing maps a file can hold: none, a clean one, a key with a query string,
\* a listing without link, two keys of one page, a bare query string, two pages
FileOffers ==
    {EmptyMap,
     [k \in {LinkA} |-> Offer(LinkA, "700")],
     [k \in {LinkAX} |-> Offer(LinkAX, "700")],
     [k \in {LinkA} |-> Offer(EmptyStr, "700")],
     [k \in {LinkAX, LinkAY} |-> Offer(k, "700")],
     [k \in {LinkQ} |-> Offer(LinkQ, "700")],
     [k \in {LinkA, LinkB} |-> Offer(k, "700")]}

FileUser(seen) == [NewUserState(TgUser("n1"), 1) EXCEPT !.SeenOffers = seen]

\* user maps a file can hold: none, a null user, a user with seen links
FileUsers ==
    {EmptyMap, [id \in {1} |-> NilUser]} \cup
    {[id \in {1} |-> FileUser(seen)] :
        seen \in {{}, {LinkA}, {LinkAX}, {LinkB}, {LinkA, LinkB}, {LinkAX, LinkAY}}}

\* no file, a file that does not parse, a file without last_updated, and the
\* files with these users and listings
Files ==
    {NoFile, CorruptFile, Snapshot(EmptyMap, EmptyMap, ZeroTime)} \cup
    {Snapshot(u, k, StartDay) : u \in FileUsers, k \in FileOffers}

\* somebody outside the process replaces, truncates or removes bot_state.json
EditFile(file) ==
    /\ \A t \in Threads : pc[t] = "idle"
    /\ disk # file
    /\ disk' = file
    /\ call' = Call("EditFile", 0, EmptyStr, FALSE)
    /\ UNCHANGED <<Users, KnownOffers, LastUpdated, mutex, now, pc, local,
                   offersArg, ret, saveErr, bot, fetch, loop, clean, redirect>>

NextLoad ==
    \/ \E file \in Files : EditFile(file)
    \/ \E apiOK, read1, read2 \in BOOLEAN : RunBot(apiOK, read1, read2)
    \/ \E readOK \in BOOLEAN : LoadState(readOK)
    \/ \E u \in TgUsers, o \in {"ok", "mkdirErr"} : AddUser(u, 1, o)
    \/ \E o \in {"ok", "mkdirErr"} : UpdateOffers(<<Offer(LinkAX, "700")>>, o)
    \/ \E o \in {"ok", "mkdirErr"} : MarkOfferAsSeen(1, LinkAX, o)

SpecLoad == Init /\ [][NextLoad]_vars

----------------------------------------------------------------------------
(* Two subscribers under two names, with the clock moving by a month or a     *)
(* month and a day; every write succeeds.                                     *)

\* time passes between two operations
Tick(days) ==
    /\ \A t \in Threads : pc[t] = "idle"
    /\ now + days <= StartDay + MaxElapsed
    /\ now' = now + days
    /\ call' = Call("Tick", 0, EmptyStr, FALSE)
    /\ UNCHANGED <<Users, KnownOffers, LastUpdated, mutex, disk, pc, local,
                   offersArg, ret, saveErr, bot, fetch, loop, clean, redirect>>

NextUsers ==
    \/ \E d \in {InactiveDays, InactiveDays + 1} : Tick(d)
    \/ \E u \in {TgUser("n1"), TgUser("n2")}, id \in ChatIDs : AddUser(u, id, "ok")
    \/ \E id \in ChatIDs : MarkOfferAsSeen(id, LinkAX, "ok")
    \/ \E id \in ChatIDs : ResetUserState(id, "ok")
    \/ \E id \in ChatIDs, b \in BOOLEAN : SetUserNotifications(id, b, "ok")
    \/ \E id \in ChatIDs : UpdateUserLastNotified(id, now, "ok")
    \/ CleanupInactiveUsers("ok")
    \/ UpdateOffers(<<Offer(LinkAX, "700")>>, "ok")

SpecUsers == Init /\ [][NextUsers]_vars

----------------------------------------------------------------------------
(* The "Yes, Clear Data" button of the bot *)

\* handleClearConfirm: botState.ResetUserState(chatID), then the message that
\* says the seen offers are reset and the notifications re-enabled
handleClearConfirm(chatID, outcome) ==
    /\ sequential
    /\ ResetUserStateBody(chatID)
    /\ IF chatID \in DOMAIN Users
       THEN saveState(outcome, Users', KnownOffers', LastUpdated')
       ELSE outcome = "ok" /\ noSave
    /\ call' = Call("handleClearConfirm", chatID, EmptyStr, FALSE)
    /\ ret' = Ret(<< >>, FALSE, NoErr)
    /\ UNCHANGED <<now, offersArg>>

NextClear ==
    \/ \E u \in TgUsers, id \in ChatIDs : AddUser(u, id, "ok")
    \/ \E id \in ChatIDs, l \in {LinkAX, LinkB} : MarkOfferAsSeen(id, l, "ok")
    \/ \E id \in ChatIDs, b \in BOOLEAN : SetUserNotifications(id, b, "ok")
    \/ \E id \in ChatIDs : UpdateUserLastNotified(id, now, "ok")
    \/ \E id \in ChatIDs, o \in {"ok", "mkdirErr"} : handleClearConfirm(id, o)

SpecClear == Init /\ [][NextClear]_vars

----------------------------------------------------------------------------
(* WebSite.FetchRentalOffers on a chain of result pages. The URL of a page is *)
(* its place in the site; the initial POST is answered by page 1; any request *)
(* can fail (transport error or a status other than 200).                     *)

ErrInitialPage == "error fetching initial page"

\* the link of the one listing on page i
PageLink(i) == [j \in 1..i |-> "p"]

\* what extractSingleOffer makes of one ".list-item-container": the fields it
\* finds, the others empty
Container(link, price, size, rooms) ==
    [Title |-> "", Address |-> "", Price |-> price, Size |-> size, Rooms |-> rooms,
     Available |-> "", Link |-> link]

\* the containers of page i: one with a price only, one with no price, size or
\* rooms, one with a size only, one with the rooms only, in turn
PageContainers(i) ==
    CASE i % 3 = 1 -> <<Container(PageLink(i), "700", "", ""),
                        Container(PageLink(i) \o <<"b">>, "", "", "")>>
      [] i % 3 = 2 -> <<Container(PageLink(i) \o <<"b">>, "", "", ""),
                        Container(PageLink(i), "", "50 m2", "")>>
      [] OTHER     -> <<Container(PageLink(i), "", "", "2h+k")>>

\* a site of len pages, each with a rel="next" link to the page after it; the
\* last page links to page back, or to none when back is 0
Site(len, back) ==
    [i \in 1..len |-> [containers |-> PageContainers(i),
                       next |-> IF i < len THEN i + 1 ELSE back]]

Sites == {Site(len, back) : len \in 1..MaxChain, back \in {0, 1}}

\* the content of the form data file
FormBodies == {"form1", "form2"}

\* the extractor keeping only the containers that have all of price, size, rooms
extractRentalOffersAll(containers) ==
    SelectSeq(containers,
              LAMBDA offer : offer.Size # "" /\ offer.Rooms # "" /\ offer.Price # "")

\* extractRentalOffers: extractSingleOffer on every container of the document,
\* in order; "if offer.Size != "" || offer.Rooms != "" || offer.Price != """
\* appends the listing, else the container is skipped
extractRentalOffers(containers) ==
    SelectSeq(containers,
              LAMBDA offer : offer.Size # "" \/ offer.Rooms # "" \/ offer.Price # "")

\* the listings fetchAndParse returns for the page at url
PageOffers(site, url) == extractRentalOffers(site[url].containers)

\* a request sent (method, url, body and whether it succeeded), or the sleep
Event(method, url, body, ok) ==
    [method |-> method, url |-> url, body |-> body, ok |-> ok]

\* the test that stops the pagination one page late
AtMaxPagesLate(f) == f.maxPages > 0 /\ f.pageNum > f.maxPages + 1

\* the page limit tested only where the chain has ended anyway
AtMaxPagesAtEnd(f) == f.maxPages > 0 /\ f.pageNum > f.maxPages /\ f.nextPageURL = 0

\* "if maxPages > 0 && pageNum > maxPages"
AtMaxPages(f) == f.maxPages > 0 /\ f.pageNum > f.maxPages

fetchOnly ==
    UNCHANGED <<Users, KnownOffers, LastUpdated, mutex, disk, now, pc, local,
                call, offersArg, ret, saveErr, bot, loop, clean, redirect>>

\* the call FetchRentalOffers(formData, maxPages)
FetchStart(site, formData, maxPages) ==
    /\ fetch.pc \in {"none", "done", "stored"}
    /\ fetch' = [NoFetch EXCEPT !.pc = "post", !.site = site, !.formData = formData,
                                !.maxPages = maxPages]
    /\ fetchOnly

\* fetchAndParse(initialURL, "POST", formData), and the return when it fails
FetchPost(ok) ==
    /\ fetch.pc = "post"
    /\ fetch' = IF ok
                THEN [fetch EXCEPT !.events = Append(@, Event("POST", 1, fetch.formData, TRUE)),
                                   !.allOffers = PageOffers(fetch.site, 1),
                                   !.nextPageURL = fetch.site[1].next,
                                   !.pageNum = 2,
                                   !.pc = "loop"]
                ELSE [fetch EXCEPT !.events = Append(@, Event("POST", 1, fetch.formData, FALSE)),
                                   !.err = ErrInitialPage,
                                   !.pc = "done"]
    /\ fetchOnly

\* a turn of the loop that keeps the URL it has instead of taking the next
\* link of the page it just read
FetchGetSamePage(ok) ==
    /\ fetch.pc = "loop"
    /\ fetch.nextPageURL # 0
    /\ ~AtMaxPages(fetch)
    /\ fetch.pageNum <= MaxPageNum
    /\ fetch' = IF ok
                THEN [fetch EXCEPT
                         !.events = Append(@, Event("GET", fetch.nextPageURL, "", TRUE)),
                         !.allOffers = @ \o PageOffers(fetch.site, fetch.nextPageURL),
                         !.pageNum = @ + 1,
                         !.pc = "sleep"]
                ELSE [fetch EXCEPT
                         !.events = Append(@, Event("GET", fetch.nextPageURL, "", FALSE)),
                         !.pc = "done"]
    /\ fetchOnly

\* a turn of the loop that asks for the same page again when the request failed
FetchGetRetries(ok) ==
    /\ fetch.pc = "loop"
    /\ fetch.nextPageURL # 0
    /\ ~AtMaxPages(fetch)
    /\ fetch.pageNum <= MaxPageNum
    /\ fetch' = IF ok
                THEN [fetch EXCEPT
                         !.events = Append(@, Event("GET", fetch.nextPageURL, "", TRUE)),
                         !.allOffers = @ \o PageOffers(fetch.site, fetch.nextPageURL),
                         !.nextPageURL = fetch.site[fetch.nextPageURL].next,
                         !.pageNum = @ + 1,
                         !.pc = "sleep"]
                ELSE [fetch EXCEPT
                         !.events = Append(@, Event("GET", fetch.nextPageURL, "", FALSE)),
                         !.pageNum = @ + 1,
                         !.pc = "sleep"]
    /\ fetchOnly

\* one turn of the pagination loop up to the sleep: fetchAndParse(nextPageURL,
\* "GET", ""), and the break out of the loop and the return when it fails
FetchGet(ok) ==
    /\ fetch.pc = "loop"
    /\ fetch.nextPageURL # 0
    /\ ~AtMaxPages(fetch)
    /\ fetch.pageNum <= MaxPageNum
    /\ fetch' = IF ok
                THEN [fetch EXCEPT
                         !.events = Append(@, Event("GET", fetch.nextPageURL, "", TRUE)),
                         !.allOffers = @ \o PageOffers(fetch.site, fetch.nextPageURL),
                         !.nextPageURL = fetch.site[fetch.nextPageURL].next,
                         !.pageNum = @ + 1,
                         !.pc = "sleep"]
                ELSE [fetch EXCEPT
                         !.events = Append(@, Event("GET", fetch.nextPageURL, "", FALSE)),
                         !.pc = "done"]
    /\ fetchOnly

\* time.Sleep(500 * time.Millisecond) at the end of the turn
FetchSleep ==
    /\ fetch.pc = "sleep"
    /\ fetch' = [fetch EXCEPT !.events = Append(@, Event("sleep", 0, "", TRUE)),
                              !.pc = "loop"]
    /\ fetchOnly

\* the loop ends, on no next page or on the page limit: return allOffers, nil
FetchReturn ==
    /\ fetch.pc = "loop"
    /\ fetch.nextPageURL = 0 \/ AtMaxPages(fetch)
    /\ fetch' = [fetch EXCEPT !.pc = "done"]
    /\ fetchOnly

NextFetch ==
    \/ \E site \in Sites, formData \in FormBodies, maxPages \in 0..MaxPagesArg :
          FetchStart(site, formData, maxPages)
    \/ \E ok \in BOOLEAN : FetchPost(ok)
    \/ \E ok \in BOOLEAN : FetchGet(ok)
    \/ FetchSleep
    \/ FetchReturn

SpecFetch == Init /\ [][NextFetch]_vars

\* FetchRentalOffers is straight-line code of one goroutine: once called it
\* takes its next step, and every request it sends is answered or fails
SpecFetchLive ==
    /\ SpecFetch
    /\ WF_vars(\E ok \in BOOLEAN : FetchPost(ok))
    /\ WF_vars(\E ok \in BOOLEAN : FetchGet(ok))
    /\ WF_vars(FetchSleep)
    /\ WF_vars(FetchReturn)

----------------------------------------------------------------------------
(* The operations that read the store, and a caller that writes to the value *)
(* the last operation returned to it. A *UserState that is a key's value in  *)
(* bs.Users is the registry's own record; a Go map in a copied struct is the *)
(* same map.                                                                  *)

readOnly ==
    /\ sequential
    /\ UNCHANGED <<Users, KnownOffers, LastUpdated, now, offersArg>>
    /\ noSave

\* GetUser: "user, exists := bs.Users[chatID]; return user, exists"
GetUser(chatID) ==
    /\ readOnly
    /\ call' = Call("GetUser", chatID, EmptyStr, FALSE)
    /\ ret' = Ret(<< >>, chatID \in DOMAIN Users, NoErr)

\* GetAllUsers: a new map with, for every user, a pointer to "userCopy := *v"
GetAllUsers ==
    /\ readOnly
    /\ call' = Call("GetAllUsers", 0, EmptyStr, FALSE)
    /\ ret' = Ret(<< >>, FALSE, NoErr)

\* GetKnownOffers: a new map with the RentalOffer values
GetKnownOffers ==
    /\ readOnly
    /\ call' = Call("GetKnownOffers", 0, EmptyStr, FALSE)
    /\ ret' = Ret(<< >>, FALSE, NoErr)

\* whether the last operation returned a UserState for chatID to its caller
ReturnedUser(chatID) ==
    /\ chatID \in DOMAIN Users
    /\ \/ call.name \in {"AddUser", "GetUser"} /\ call.chatID = chatID
       \/ call.name = "GetAllUsers"

callerOnly ==
    /\ \A t \in Threads : pc[t] = "idle"
    /\ noSave
    /\ ret' = Ret(<< >>, FALSE, NoErr)
    /\ UNCHANGED <<LastUpdated, mutex, now, pc, local, offersArg, bot, fetch, loop, clean, redirect>>

\* the caller sets Notifications of the UserState it got: through the pointer
\* of AddUser and GetUser this is the record of the registry, through the
\* pointer of GetAllUsers it is userCopy
CallerSetsNotifications(chatID, enable) ==
    /\ ReturnedUser(chatID)
    /\ Users' = IF call.name = "GetAllUsers"
                THEN Users
                ELSE [Users EXCEPT ![chatID].Notifications = enable]
    /\ UNCHANGED KnownOffers
    /\ call' = Call("CallerWrite", chatID, EmptyStr, enable)
    /\ callerOnly

\* the caller adds a link to SeenOffers of the UserState it got: the map is the
\* one of the registry, also in userCopy
CallerAddsSeen(chatID, link) ==
    /\ ReturnedUser(chatID)
    /\ Users' = [Users EXCEPT ![chatID].SeenOffers = @ \cup {link}]
    /\ UNCHANGED KnownOffers
    /\ call' = Call("CallerWrite", chatID, link, FALSE)
    /\ callerOnly

\* the caller deletes a listing from the map GetKnownOffers returned
CallerDeletesOffer(link) ==
    /\ call.name = "GetKnownOffers"
    /\ link \in DOMAIN KnownOffers
    /\ UNCHANGED <<Users, KnownOffers>>
    /\ call' = Call("CallerWrite", 0, link, FALSE)
    /\ callerOnly

NextReads ==
    \/ \E u \in TgUsers, id \in ChatIDs : AddUser(u, id, "ok")
    \/ \E offers \in SomeInputs : UpdateOffers(offers, "ok")
    \/ \E id \in ChatIDs : GetUser(id)
    \/ GetAllUsers
    \/ GetKnownOffers
    \/ \E id \in ChatIDs, b \in BOOLEAN : CallerSetsNotifications(id, b)
    \/ \E id \in ChatIDs : CallerAddsSeen(id, LinkB)
    \/ \E l \in {LinkA, LinkB} : CallerDeletesOffer(l)

SpecReads == Init /\ [][NextReads]_vars

----------------------------------------------------------------------------
(* RunBot and periodicUpdate: the goroutine of the periodic updates, the      *)
(* goroutine of its first update, and the loop of RunBot that handles the     *)
(* messages. An updateAndNotify is running or not; how long it runs is open.  *)

loopOnly ==
    UNCHANGED <<Users, KnownOffers, LastUpdated, mutex, disk, now, pc, local,
                call, offersArg, ret, saveErr, bot, fetch, clean, redirect>>

\* "go periodicUpdate(...)", its first sleep, the ticker, and "go func()" that
\* runs the first updateAndNotify; periodicUpdate is then at the select
LoopStart ==
    /\ bot.run = "running"
    /\ loop.main = "none"
    /\ loop' = [main |-> "select", initial |-> "running", tick |-> "idle", waited |-> 0]
    /\ loopOnly

\* the first updateAndNotify returns: close(initialUpdateDone)
InitialFinish ==
    /\ loop.initial = "running"
    /\ loop' = [loop EXCEPT !.initial = "done"]
    /\ loopOnly

\* time passes while periodicUpdate is at the select, up to the timeout
Wait ==
    /\ loop.main = "select"
    /\ loop.waited < GraceSeconds
    /\ loop' = [loop EXCEPT !.waited = @ + WaitStep]
    /\ loopOnly

\* "case <-initialUpdateDone"
SelectDone ==
    /\ loop.main = "select"
    /\ loop.initial = "done"
    /\ loop' = [loop EXCEPT !.main = "ticking"]
    /\ loopOnly

\* a select without the timeout case: it waits for the first update alone
SelectTimeoutNever ==
    /\ loop.main = "select"
    /\ loop.waited >= GraceSeconds
    /\ loop.initial = "done"
    /\ loop' = [loop EXCEPT !.main = "ticking"]
    /\ loopOnly

\* "case <-time.After(30 * time.Second)"
SelectTimeout ==
    /\ loop.main = "select"
    /\ loop.waited >= GraceSeconds
    /\ loop' = [loop EXCEPT !.main = "ticking"]
    /\ loopOnly

\* "for range ticker.C": a tick is taken and updateAndNotify is called
TickStart ==
    /\ loop.main = "ticking"
    /\ loop.tick = "idle"
    /\ loop' = [loop EXCEPT !.tick = "running"]
    /\ loopOnly

\* the updateAndNotify of the tick returns
TickFinish ==
    /\ loop.tick = "running"
    /\ loop' = [loop EXCEPT !.tick = "idle"]
    /\ loopOnly

\* "for update := range updates": handleMessage on a message that is no
\* command, which registers the sender and answers with the main menu
HandleMessage(user, chatID, outcome) ==
    /\ bot.run = "running"
    /\ AddUser(user, chatID, outcome)

NextPeriodic ==
    \/ \E apiOK \in BOOLEAN : RunBot(apiOK, TRUE, TRUE)
    \/ LoopStart
    \/ InitialFinish
    \/ Wait
    \/ SelectDone
    \/ SelectTimeout
    \/ TickStart
    \/ TickFinish
    \/ \E u \in TgUsers, id \in ChatIDs, o \in {"ok", "mkdirErr"} : HandleMessage(u, id, o)

SpecPeriodic == Init /\ [][NextPeriodic]_vars

\* the clock goes on and a timer that has run out is received by the select;
\* nothing makes an updateAndNotify return
SpecPeriodicLive == SpecPeriodic /\ WF_vars(Wait) /\ WF_vars(SelectTimeout)

----------------------------------------------------------------------------
(* updateAndNotify and notifyUsers of the bot, one store operation or one    *)
(* Telegram call at a time. The periodic goroutine holds no lock between two *)
(* store operations, so the operations of the handler can come in between.   *)

\* what the periodic goroutine works on: the new offers, the chat ids of the
\* map GetAllUsers returned, the users it is done with, the users a message was
\* sent to, the user at hand and the index of the offer to mark
NotifyState(newOffers) ==
    [op |-> "notifyUsers", chatID |-> 0, link |-> EmptyStr, offers |-> newOffers,
     newOffers |-> << >>, data |-> NoFile, users |-> {}, served |-> {}, sent |-> {},
     i |-> 0]

\* a step of the periodic goroutine: no lock is held before or after it
periodicStep ==
    /\ mutex = Unlocked
    /\ pc["handler"] = "idle"
    /\ UNCHANGED <<mutex, now, bot, fetch, loop, clean, redirect>>

\* updateAndNotify with the listings the fetch returned: UpdateOffers, and the
\* call of notifyUsers when there are new offers
CycleUpdate(offers) ==
    /\ periodicStep
    /\ pc["periodic"] = "idle"
    /\ UpdateOffersBody(offers)
    /\ saveState("ok", Users', KnownOffers', LastUpdated')
    /\ call' = Call("UpdateOffers", 0, EmptyStr, FALSE)
    /\ offersArg' = Input(offers, offersArg.given /\ offersArg.offers = offers)
    /\ LET new == UpdateLoop(offers, 1, KnownOffers, << >>).newOffers
       IN  /\ ret' = Ret(new, FALSE, NoErr)
           /\ local' = [local EXCEPT !["periodic"] = NotifyState(new)]
           /\ pc' = [pc EXCEPT !["periodic"] =
                        IF Len(new) > 0 THEN "notifyUsers" ELSE "idle"]

\* "users := botState.GetAllUsers()"
NotifyGetAllUsers ==
    /\ periodicStep
    /\ pc["periodic"] = "notifyUsers"
    /\ local' = [local EXCEPT !["periodic"].users = DOMAIN Users]
    /\ pc' = [pc EXCEPT !["periodic"] = "range"]
    /\ call' = Call("GetAllUsers", 0, EmptyStr, FALSE)
    /\ ret' = Ret(<< >>, FALSE, NoErr)
    /\ noSave
    /\ UNCHANGED <<Users, KnownOffers, LastUpdated, offersArg>>

\* the check that takes every user of the map for one with the notifications on
NotifyCheckAll(chatID) ==
    /\ periodicStep
    /\ pc["periodic"] = "range"
    /\ chatID \in local["periodic"].users \ local["periodic"].served
    /\ local' = [local EXCEPT !["periodic"].chatID = chatID, !["periodic"].i = 1]
    /\ pc' = [pc EXCEPT !["periodic"] = "mark"]
    /\ call' = Call("GetUserNotificationsEnabled", chatID, EmptyStr, FALSE)
    /\ ret' = Ret(<< >>, TRUE, NoErr)
    /\ noSave
    /\ UNCHANGED <<Users, KnownOffers, LastUpdated, offersArg>>

\* the next chat id of "for chatID := range users":
\* "if !botState.GetUserNotificationsEnabled(chatID) { continue }"
NotifyCheck(chatID) ==
    /\ periodicStep
    /\ pc["periodic"] = "range"
    /\ chatID \in local["periodic"].users \ local["periodic"].served
    /\ LET enabled == chatID \in DOMAIN Users /\ Users[chatID].Notifications
       IN  /\ IF enabled
              THEN /\ local' = [local EXCEPT !["periodic"].chatID = chatID,
                                             !["periodic"].i = 1]
                   /\ pc' = [pc EXCEPT !["periodic"] = "mark"]
              ELSE /\ local' = [local EXCEPT !["periodic"].served = @ \cup {chatID}]
                   /\ UNCHANGED pc
           /\ ret' = Ret(<< >>, enabled, NoErr)
    /\ call' = Call("GetUserNotificationsEnabled", chatID, EmptyStr, FALSE)
    /\ noSave
    /\ UNCHANGED <<Users, KnownOffers, LastUpdated, offersArg>>

\* "botState.MarkOfferAsSeen(chatID, offer.Link)" for the next of the first
\* NotifyLimit new offers
NotifyMark ==
    /\ periodicStep
    /\ pc["periodic"] = "mark"
    /\ LET st == local["periodic"]
       IN  /\ MarkOfferAsSeenBody(st.chatID, st.offers[st.i].Link)
           /\ call' = Call("MarkOfferAsSeen", st.chatID, st.offers[st.i].Link, FALSE)
           /\ local' = [local EXCEPT !["periodic"].i = @ + 1]
           /\ pc' = [pc EXCEPT !["periodic"] =
                        IF st.i + 1 > Len(st.offers) \/ st.i + 1 > NotifyLimit
                        THEN "send" ELSE "mark"]
    /\ saveState("ok", Users', KnownOffers', LastUpdated')
    /\ ret' = Ret(<< >>, FALSE, NoErr)
    /\ UNCHANGED offersArg

\* "bot.Send(msg)": the message goes out, and Telegram accepts it or not
NotifySend(ok) ==
    /\ periodicStep
    /\ pc["periodic"] = "send"
    /\ LET st == local["periodic"]
       IN  /\ call' = Call("Send", st.chatID, EmptyStr, FALSE)
           /\ local' = [local EXCEPT
                           !["periodic"].sent = @ \cup {st.chatID},
                           !["periodic"].served = IF ok THEN @ ELSE @ \cup {st.chatID}]
    /\ pc' = [pc EXCEPT !["periodic"] = IF ok THEN "sent" ELSE "range"]
    /\ ret' = Ret(<< >>, ok, NoErr)
    /\ noSave
    /\ UNCHANGED <<Users, KnownOffers, LastUpdated, offersArg>>

\* "botState.UpdateUserLastNotified(chatID, time.Now())"
NotifyLastNotified ==
    /\ periodicStep
    /\ pc["periodic"] = "sent"
    /\ UpdateUserLastNotifiedBody(local["periodic"].chatID, now)
    /\ saveState("ok", Users', KnownOffers', LastUpdated')
    /\ call' = Call("UpdateUserLastNotified", local["periodic"].chatID, EmptyStr, FALSE)
    /\ local' = [local EXCEPT !["periodic"].served = @ \cup {local["periodic"].chatID}]
    /\ pc' = [pc EXCEPT !["periodic"] = "range"]
    /\ ret' = Ret(<< >>, FALSE, NoErr)
    /\ UNCHANGED offersArg

\* the range is over: notifyUsers and updateAndNotify return
NotifyReturn ==
    /\ periodicStep
    /\ pc["periodic"] = "range"
    /\ local["periodic"].users \subseteq local["periodic"].served
    /\ pc' = [pc EXCEPT !["periodic"] = "idle"]
    /\ call' = Call("notifyUsers", 0, EmptyStr, FALSE)
    /\ ret' = Ret(<< >>, FALSE, NoErr)
    /\ noSave
    /\ UNCHANGED <<Users, KnownOffers, LastUpdated, offersArg, local>>

\* the steps of one cycle after the fetch
CycleSteps ==
    \/ \E offers \in SomeInputs : CycleUpdate(offers)
    \/ NotifyGetAllUsers
    \/ \E id \in ChatIDs : NotifyCheck(id)
    \/ NotifyMark
    \/ \E ok \in BOOLEAN : NotifySend(ok)
    \/ NotifyLastNotified
    \/ NotifyReturn

\* the handler acts between two cycles only
NextNotify ==
    \/ CycleSteps
    \/ \E u \in TgUsers, id \in ChatIDs : AddUser(u, id, "ok")
    \/ \E id \in ChatIDs, b \in BOOLEAN : SetUserNotifications(id, b, "ok")

SpecNotify == Init /\ [][NextNotify]_vars

\* a store operation of the handler while the periodic goroutine is anywhere
\* between two of its own store operations
handlerStep ==
    /\ mutex = Unlocked
    /\ pc["handler"] = "idle"
    /\ UNCHANGED <<mutex, pc, local, now, offersArg, bot, fetch, loop, clean, redirect>>

\* handleMessage: botState.AddUser(message.From, message.Chat.ID)
HandlerAddUser(user, chatID) ==
    /\ handlerStep
    /\ AddUserBody(user, chatID)
    /\ saveState("ok", Users', KnownOffers', LastUpdated')
    /\ call' = Call("AddUser", chatID, EmptyStr, FALSE)
    /\ ret' = Ret(<< >>, TRUE, NoErr)

\* toggleNotifications: botState.SetUserNotifications(chatID, enable)
HandlerSetUserNotifications(chatID, enabled) ==
    /\ handlerStep
    /\ SetUserNotificationsBody(chatID, enabled)
    /\ IF chatID \in DOMAIN Users
       THEN saveState("ok", Users', KnownOffers', LastUpdated')
       ELSE noSave
    /\ call' = Call("SetUserNotifications", chatID, EmptyStr, enabled)
    /\ ret' = Ret(<< >>, chatID \in DOMAIN Users, NoErr)

NextNotifyConc ==
    \/ CycleSteps
    \/ \E u \in TgUsers : HandlerAddUser(u, 1)
    \/ \E b \in BOOLEAN : HandlerSetUserNotifications(1, b)

SpecNotifyConc == Init /\ [][NextNotifyConc]_vars

----------------------------------------------------------------------------
(* w.client.Do(req) on a server that answers the first chain requests with a *)
(* redirect. The client calls CheckRedirect before it follows a redirect,    *)
(* with via holding the requests sent so far, oldest first.                   *)

ErrTooManyRedirects == "too many redirects"

\* CheckRedirect: "if len(via) >= 10 { return fmt.Errorf("too many redirects") }"
CheckRedirect(via) == IF via >= RedirectLimit THEN ErrTooManyRedirects ELSE NoErr

redirectOnly ==
    UNCHANGED <<Users, KnownOffers, LastUpdated, mutex, disk, now, pc, local,
                call, offersArg, ret, saveErr, bot, fetch, loop, clean>>

\* client.Do(req): the first request of the chain is sent
ClientDo(method, chain) ==
    /\ redirect.pc \in {"none", "ok", "failed"}
    /\ redirect' = [pc |-> "sent", method |-> method, chain |-> chain, via |-> 1,
                    err |-> NoErr]
    /\ redirectOnly

\* the answer to the last request is a redirect: CheckRedirect is asked, and the
\* redirect is followed with one more request, or Do returns the error
Redirected ==
    /\ redirect.pc = "sent"
    /\ redirect.via <= redirect.chain
    /\ redirect' = IF CheckRedirect(redirect.via) = NoErr
                   THEN [redirect EXCEPT !.via = @ + 1]
                   ELSE [redirect EXCEPT !.pc = "failed",
                                         !.err = CheckRedirect(redirect.via)]
    /\ redirectOnly

\* the answer to the last request is the final response: Do returns it
FinalResponse ==
    /\ redirect.pc = "sent"
    /\ redirect.via = redirect.chain + 1
    /\ redirect' = [redirect EXCEPT !.pc = "ok"]
    /\ redirectOnly

NextRedirect ==
    \/ \E method \in {"POST", "GET"}, chain \in 0..MaxRedirects : ClientDo(method, chain)
    \/ Redirected
    \/ FinalResponse

SpecRedirect == Init /\ [][NextRedirect]_vars

----------------------------------------------------------------------------
(* cleanURL on the links of up to MaxUrlLen characters, called on a link and *)
(* then on its own result                                                     *)

\* the characters of the links given to cleanURL
UrlChars == {"a", "/", "?"}

\* the strings of exactly n characters over UrlChars
RECURSIVE StringsOfLen(_)
StringsOfLen(n) ==
    IF n = 0
    THEN {<< >>}
    ELSE {Append(str, c) : str \in StringsOfLen(n - 1), c \in UrlChars}

Urls == UNION {StringsOfLen(n) : n \in 0..MaxUrlLen}

InitClean ==
    /\ Users = EmptyMap
    /\ KnownOffers = EmptyMap
    /\ LastUpdated = StartDay
    /\ mutex = Unlocked
    /\ disk = NoFile
    /\ now = StartDay
    /\ pc = [t \in Threads |-> "idle"]
    /\ local = [t \in Threads |-> NoRequest]
    /\ call = Call("NewBotState", 0, EmptyStr, FALSE)
    /\ offersArg = NoInput
    /\ ret = Ret(<< >>, FALSE, NoErr)
    /\ saveErr = NotSaved
    /\ bot = NotStarted
    /\ fetch = NoFetch
    /\ loop = NoLoop
    /\ clean \in {[NoClean EXCEPT !.url = url] : url \in Urls}
    /\ redirect = NoRedirect

cleanOnly ==
    UNCHANGED <<Users, KnownOffers, LastUpdated, mutex, disk, now, pc, local,
                call, offersArg, ret, saveErr, bot, fetch, loop, redirect>>

\* cleanURL(url)
CleanLink ==
    /\ clean.calls = 0
    /\ clean' = [clean EXCEPT !.out = cleanURL(clean.url), !.calls = 1]
    /\ cleanOnly

\* cleanURL on the result of the first call
CleanAgain ==
    /\ clean.calls = 1
    /\ clean' = [clean EXCEPT !.again = cleanURL(clean.out), !.calls = 2]
    /\ cleanOnly

NextClean == CleanLink \/ CleanAgain

SpecClean == InitClean /\ [][NextClean]_vars

----------------------------------------------------------------------------
(* updateAndNotify: the listings a run of FetchRentalOffers returned go to    *)
(* UpdateOffers. The registry has no subscriber here, so notifyUsers has     *)
(* nobody to send to.                                                         *)

\* fetchRentalOffers: the conversion of the RentalOffer values to state.RentalOffer
stateOffers(offers) ==
    [i \in DOMAIN offers |->
        [Title |-> offers[i].Title, Address |-> offers[i].Address,
         Price |-> offers[i].Price, Size |-> offers[i].Size, Rooms |-> offers[i].Rooms,
         Available |-> offers[i].Available, Link |-> offers[i].Link]]

\* the rest of updateAndNotify after a run that returned no error:
\* botState.UpdateOffers(offers)
UpdateFetched(outcome) ==
    /\ fetch.pc = "done"
    /\ fetch.err = NoErr
    /\ \A t \in Threads : pc[t] = "idle"
    /\ Users = EmptyMap
    /\ UpdateOffersBody(stateOffers(fetch.allOffers))
    /\ saveState(outcome, Users', KnownOffers', LastUpdated')
    /\ call' = Call("UpdateOffers", 0, EmptyStr, FALSE)
    /\ offersArg' = Input(stateOffers(fetch.allOffers),
                          offersArg.given /\ offersArg.offers = stateOffers(fetch.allOffers))
    /\ ret' = Ret(UpdateLoop(stateOffers(fetch.allOffers), 1, KnownOffers, << >>).newOffers,
                  FALSE, NoErr)
    /\ fetch' = [fetch EXCEPT !.pc = "stored"]
    /\ UNCHANGED <<mutex, now, pc, local, bot, loop, clean, redirect>>

\* the sites of the cycles: two pages and no more, or three pages in a circle
CycleSites == {Site(2, 0), Site(3, 1)}

NextCycle ==
    \/ \E site \in CycleSites, maxPages \in {0, MaxPagesArg} :
          FetchStart(site, "form1", maxPages)
    \/ \E ok \in BOOLEAN : FetchPost(ok)
    \/ \E ok \in BOOLEAN : FetchGet(ok)
    \/ FetchSleep
    \/ FetchReturn
    \/ \E outcome \in SaveOutcomes : UpdateFetched(outcome)

SpecCycle == Init /\ [][NextCycle]_vars

----------------------------------------------------------------------------
(* The operations of BotState in bot.go: AddUser, UpdateOffers and            *)
(* ResetUserState write no snapshot; SaveState is called by their callers.    *)

LegacyAddUser(user, chatID) ==
    /\ sequential
    /\ AddUserBody(user, chatID)
    /\ noSave
    /\ call' = Call("AddUser", chatID, EmptyStr, FALSE)
    /\ ret' = Ret(<< >>, TRUE, NoErr)
    /\ UNCHANGED <<now, offersArg>>

LegacyUpdateOffers(offers) ==
    /\ sequential
    /\ UpdateOffersBody(offers)
    /\ noSave
    /\ call' = Call("UpdateOffers", 0, EmptyStr, FALSE)
    /\ offersArg' = Input(offers, offersArg.given /\ offersArg.offers = offers)
    /\ ret' = Ret(UpdateLoop(offers, 1, KnownOffers, << >>).newOffers, FALSE, NoErr)
    /\ UNCHANGED now

LegacyResetUserState(chatID) ==
    /\ sequential
    /\ ResetUserStateBody(chatID)
    /\ noSave
    /\ call' = Call("ResetUserState", chatID, EmptyStr, FALSE)
    /\ ret' = Ret(<< >>, FALSE, NoErr)
    /\ UNCHANGED <<now, offersArg>>

\* notifyUsers of bot.go marking one new offer as seen by one user, under the mutex
LegacyMarkSeen(chatID, offerLink) ==
    /\ sequential
    /\ chatID \in DOMAIN Users
    /\ Users' = [Users EXCEPT ![chatID].SeenOffers = @ \cup {offerLink}]
    /\ UNCHANGED <<KnownOffers, LastUpdated>>
    /\ noSave
    /\ call' = Call("notifyUsers", chatID, offerLink, FALSE)
    /\ ret' = Ret(<< >>, FALSE, NoErr)
    /\ UNCHANGED <<now, offersArg>>

\* LoadState of bot.go: the same statements, between Lock and the deferred Unlock
LegacyLoadState(readOK) == LoadState(readOK)

LegacySaveState(outcome) ==
    /\ sequential
    /\ UNCHANGED <<Users, KnownOffers, LastUpdated>>
    /\ saveState(outcome, Users, KnownOffers, LastUpdated)
    /\ call' = Call("SaveState", 0, EmptyStr, FALSE)
    /\ ret' = Ret(<< >>, FALSE, saveErr')
    /\ UNCHANGED <<now, offersArg>>

NextLegacy ==
    \/ \E u \in TgUsers : LegacyAddUser(u, 1)
    \/ \E offers \in SomeInputs : LegacyUpdateOffers(offers)
    \/ LegacyResetUserState(1)
    \/ \E l \in {LinkA, LinkB} : LegacyMarkSeen(1, l)
    \/ \E o \in SaveOutcomes : LegacySaveState(o)
    \/ \E readOK \in BOOLEAN : LegacyLoadState(readOK)

SpecLegacy == Init /\ [][NextLegacy]_vars

----------------------------------------------------------------------------
(* notifyUsers of bot.go, step by step: the periodic goroutine takes the     *)
(* mutex, goes through the users and sends one message to each user who has  *)
(* the notifications on, and releases the mutex on return. The operations of *)
(* the handler take the mutex as well, so they wait while it is held.        *)

\* what notifyUsers works on: the new offers, the users it is done with, and
\* the user whose message is being sent
NotifyRequest(newOffers, served, chatID) ==
    [op |-> "notifyUsers", chatID |-> chatID, link |-> EmptyStr, offers |-> newOffers,
     newOffers |-> << >>, data |-> NoFile, served |-> served]

notifyOnly ==
    UNCHANGED <<KnownOffers, LastUpdated, disk, now, offersArg, ret, saveErr,
                bot, fetch, loop, clean, redirect>>

\* updateAndNotify calls notifyUsers(bot, state, newOffers) with the offers
\* UpdateOffers returned: "state.mutex.Lock()"
LegacyNotifyLock ==
    /\ pc["periodic"] = "idle"
    /\ mutex = Unlocked
    /\ call.name = "UpdateOffers"
    /\ Len(ret.newOffers) > 0
    /\ mutex' = "periodic"
    /\ pc' = [pc EXCEPT !["periodic"] = "notify"]
    /\ local' = [local EXCEPT !["periodic"] = NotifyRequest(ret.newOffers, {}, 0)]
    /\ call' = Call("notifyUsers", 0, EmptyStr, FALSE)
    /\ UNCHANGED Users
    /\ notifyOnly

\* the next user of "for chatID, user := range state.Users": skipped when the
\* notifications are off; else the first NotifyLimit offers are marked as seen
\* under their links as given and bot.Send(msg) is called
LegacyNotifyUser(chatID) ==
    /\ pc["periodic"] = "notify"
    /\ chatID \in DOMAIN Users \ local["periodic"].served
    /\ IF ~Users[chatID].Notifications
       THEN /\ local' = [local EXCEPT !["periodic"].served = @ \cup {chatID}]
            /\ UNCHANGED <<Users, pc>>
       ELSE /\ Users' = [Users EXCEPT ![chatID].SeenOffers = @ \cup
                            {local["periodic"].offers[i].Link :
                                i \in {j \in DOMAIN local["periodic"].offers : j <= NotifyLimit}}]
            /\ local' = [local EXCEPT !["periodic"].chatID = chatID]
            /\ pc' = [pc EXCEPT !["periodic"] = "send"]
    /\ UNCHANGED <<mutex, call>>
    /\ notifyOnly

\* bot.Send(msg) returns: on success "user.LastNotified = time.Now()"
LegacyNotifySent(ok) ==
    /\ pc["periodic"] = "send"
    /\ Users' = IF ok
                THEN [Users EXCEPT ![local["periodic"].chatID].LastNotified = now]
                ELSE Users
    /\ local' = [local EXCEPT !["periodic"].served = @ \cup {local["periodic"].chatID},
                              !["periodic"].chatID = 0]
    /\ pc' = [pc EXCEPT !["periodic"] = "notify"]
    /\ UNCHANGED <<mutex, call>>
    /\ notifyOnly

\* the range is over: the deferred "state.mutex.Unlock()"
LegacyNotifyUnlock ==
    /\ pc["periodic"] = "notify"
    /\ DOMAIN Users \subseteq local["periodic"].served
    /\ mutex' = Unlocked
    /\ pc' = [pc EXCEPT !["periodic"] = "idle"]
    /\ local' = [local EXCEPT !["periodic"] = NoRequest]
    /\ UNCHANGED <<Users, call>>
    /\ notifyOnly

\* toggleNotifications of bot.go, from Lock to the deferred Unlock
LegacyToggleNotifications(chatID, enable) ==
    /\ sequential
    /\ Users' = IF chatID \in DOMAIN Users
                THEN [Users EXCEPT ![chatID].Notifications = enable]
                ELSE Users
    /\ UNCHANGED <<KnownOffers, LastUpdated>>
    /\ noSave
    /\ call' = Call("toggleNotifications", chatID, EmptyStr, enable)
    /\ ret' = Ret(<< >>, FALSE, NoErr)
    /\ UNCHANGED <<now, offersArg>>

NextLegacyNotify ==
    \/ \E u \in TgUsers, id \in ChatIDs : LegacyAddUser(u, id)
    \/ \E offers \in SomeInputs : LegacyUpdateOffers(offers)
    \/ \E b \in BOOLEAN : LegacyToggleNotifications(1, b)
    \/ LegacyNotifyLock
    \/ \E id \in ChatIDs : LegacyNotifyUser(id)
    \/ \E ok \in BOOLEAN : LegacyNotifySent(ok)
    \/ LegacyNotifyUnlock

SpecLegacyNotify == Init /\ [][NextLegacyNotify]_vars

----------------------------------------------------------------------------
(* The snapshot write on any memory: Users and KnownOffers are exported fields *)
(* that code outside the operations can fill (notifyUsers of bot.go stores    *)
(* raw links), so the write is run on every small memory, clean or not.       *)

\* listing maps: under each key nothing, a listing with that link, or one without link
MemOffers ==
    UNION {[keys -> {Offer(LinkA, "700"), Offer(EmptyStr, "700")}] :
              keys \in SUBSET {LinkAX, LinkA, LinkQ, LinkBad}}

MemUsers ==
    {EmptyMap} \cup
    {[id \in {1} |-> FileUser(seen)] : seen \in SUBSET {LinkAX, LinkB, LinkBad}}

InitSave ==
    /\ Users \in MemUsers
    /\ KnownOffers \in MemOffers
    /\ LastUpdated = StartDay
    /\ mutex = Unlocked
    /\ disk = NoFile
    /\ now = StartDay
    /\ pc = [t \in Threads |-> "idle"]
    /\ local = [t \in Threads |-> NoRequest]
    /\ call = Call("NewBotState", 0, EmptyStr, FALSE)
    /\ offersArg = NoInput
    /\ ret = Ret(<< >>, FALSE, NoErr)
    /\ saveErr = NotSaved
    /\ bot = NotStarted
    /\ fetch = NoFetch
    /\ loop = NoLoop
    /\ clean = NoClean
    /\ redirect = NoRedirect

\* the operations that write the memory as it is: UpdateOffers of no listing and
\* MarkOfferAsSeen for an unknown chat id of package state, SaveState of bot.go
NextSave ==
    \/ \E o \in SaveOutcomes : UpdateOffers(<< >>, o)
    \/ \E o \in SaveOutcomes : MarkOfferAsSeen(2, LinkB, o)
    \/ \E o \in SaveOutcomes : LegacySaveState(o)

SpecSave == InitSave /\ [][NextSave]_vars

----------------------------------------------------------------------------
(* The operations of package state run by two goroutines, a step at a time:   *)
(* Lock, the change to the memory, the snapshot write and Unlock; LoadState   *)
(* takes no lock, and its steps are its assignments to the fields of BotState.*)

Requests ==
    {Request("UpdateOffers", 0, EmptyStr, <<Offer(LinkAX, "700")>>),
     Request("AddUser", 1, EmptyStr, << >>),
     Request("MarkOfferAsSeen", 1, LinkAX, << >>)}

Goto(t, label) == pc' = [pc EXCEPT ![t] = label]

\* bs.mutex.Lock()
Lock(t, req) ==
    /\ pc[t] = "idle"
    /\ mutex = Unlocked
    /\ mutex' = t
    /\ Goto(t, "locked")
    /\ local' = [local EXCEPT ![t] = req]
    /\ UNCHANGED <<Users, KnownOffers, LastUpdated, disk, now, bot, fetch, loop, clean, redirect, call, offersArg, ret, saveErr>>

\* the operation's change to the memory, made holding the mutex
Mutate(t) ==
    /\ pc[t] = "locked"
    /\ CASE local[t].op = "UpdateOffers" -> UpdateOffersBody(local[t].offers)
         [] local[t].op = "AddUser" -> AddUserBody(TgUser("n1"), local[t].chatID)
         [] local[t].op = "MarkOfferAsSeen" ->
                MarkOfferAsSeenBody(local[t].chatID, local[t].link)
    /\ local' = [local EXCEPT ![t].newOffers =
                     UpdateLoop(local[t].offers, 1, KnownOffers, << >>).newOffers]
    /\ Goto(t, "mutated")
    /\ UNCHANGED <<mutex, disk, now, bot, fetch, loop, clean, redirect, call, offersArg, ret, saveErr>>

\* bs.saveState(), return and the deferred bs.mutex.Unlock()
SaveUnlock(t, outcome) ==
    /\ pc[t] = "mutated"
    /\ saveState(outcome, Users, KnownOffers, LastUpdated)
    /\ mutex' = Unlocked
    /\ Goto(t, "idle")
    /\ local' = [local EXCEPT ![t] = NoRequest]
    /\ call' = Call(local[t].op, local[t].chatID, local[t].link, FALSE)
    /\ offersArg' = IF local[t].op = "UpdateOffers"
                    THEN Input(local[t].offers,
                               offersArg.given /\ offersArg.offers = local[t].offers)
                    ELSE offersArg
    /\ ret' = Ret(local[t].newOffers, local[t].op = "AddUser", NoErr)
    /\ UNCHANGED <<Users, KnownOffers, LastUpdated, now, bot, fetch, loop, clean, redirect>>

\* LoadState: os.Stat and os.ReadFile
LoadRead(t) ==
    /\ pc[t] = "idle"
    /\ local' = [local EXCEPT ![t] = [Request("LoadState", 0, EmptyStr, << >>)
                                         EXCEPT !.data = disk]]
    /\ Goto(t, "load_read")
    /\ UNCHANGED <<Users, KnownOffers, LastUpdated, mutex, disk, now, bot, fetch, loop, clean, redirect,
                   call, offersArg, ret, saveErr>>

\* LoadState: bs.Users, bs.KnownOffers and bs.LastUpdated set to the empty state;
\* it returns here when there is no file or the file does not parse
LoadReset(t) ==
    /\ pc[t] = "load_read"
    /\ Users' = EmptyMap
    /\ KnownOffers' = EmptyMap
    /\ LastUpdated' = now
    /\ IF local[t].data.exists /\ local[t].data.parses
       THEN /\ Goto(t, "load_reset")
            /\ UNCHANGED <<local, call, offersArg, ret, saveErr>>
       ELSE /\ Goto(t, "idle")
            /\ local' = [local EXCEPT ![t] = NoRequest]
            /\ call' = Call("LoadState", 0, EmptyStr, FALSE)
            /\ offersArg' = NoInput
            /\ ret' = Ret(<< >>, FALSE, LoadError(local[t].data, TRUE))
            /\ saveErr' = NotSaved
    /\ UNCHANGED <<mutex, disk, now, bot, fetch, loop, clean, redirect>>

\* LoadState: bs.KnownOffers = uniqueOffers
LoadOffers(t) ==
    /\ pc[t] = "load_reset"
    /\ KnownOffers' \in CleanOffers(local[t].data.known_offers)
    /\ Goto(t, "load_offers")
    /\ UNCHANGED <<Users, LastUpdated, mutex, disk, now, bot, fetch, loop, clean, redirect, local,
                   call, offersArg, ret, saveErr>>

\* LoadState: the loop storing each loaded user in bs.Users, its seen offers
\* checked against bs.KnownOffers as it is now, then bs.LastUpdated and return
LoadUsers(t) ==
    /\ pc[t] = "load_offers"
    /\ Users' = LET loaded == CleanUsers(local[t].data.users, KnownOffers)
                IN  [id \in DOMAIN Users \cup DOMAIN loaded |->
                        IF id \in DOMAIN loaded THEN loaded[id] ELSE Users[id]]
    /\ LastUpdated' = IF local[t].data.last_updated # ZeroTime
                      THEN local[t].data.last_updated ELSE LastUpdated
    /\ Goto(t, "idle")
    /\ local' = [local EXCEPT ![t] = NoRequest]
    /\ call' = Call("LoadState", 0, EmptyStr, FALSE)
    /\ offersArg' = NoInput
    /\ ret' = Ret(<< >>, FALSE, NoErr)
    /\ saveErr' = NotSaved
    /\ UNCHANGED <<KnownOffers, mutex, disk, now, bot, fetch, loop, clean, redirect>>

NextConc ==
    \E t \in Threads :
        \/ \E req \in Requests : Lock(t, req)
        \/ Mutate(t)
        \/ \E o \in {"ok", "openErr"} : SaveUnlock(t, o)
        \/ LoadRead(t)
        \/ LoadReset(t)
        \/ LoadOffers(t)
        \/ LoadUsers(t)

SpecConc == Init /\ [][NextConc]_vars

\* the update cycles of two goroutines at once: the listings of the same page
\* under two query strings, of another page, and of both
UpdateRequests ==
    {Request("UpdateOffers", 0, EmptyStr, offers) :
        offers \in {<<Offer(LinkAX, "700")>>, <<Offer(LinkAY, "800")>>,
                    <<Offer(LinkB, "700")>>,
                    <<Offer(LinkAY, "800"), Offer(LinkB, "700")>>}}

NextUpdates ==
    \E t \in Threads :
        \/ \E req \in UpdateRequests : Lock(t, req)
        \/ Mutate(t)
        \/ \E o \in {"ok", "openErr"} : SaveUnlock(t, o)

SpecUpdates == Init /\ [][NextUpdates]_vars

----------------------------------------------------------------------------
(* bot.go with its goroutines, lock by lock. SaveState takes the mutex for   *)
(* its copy of the state and writes the file after it has released it;       *)
(* CleanupInactiveUsers and handleClearConfirm call SaveState while they     *)
(* hold the mutex, and sync.Mutex is not reentrant. updateAndNotify is run   *)
(* by the goroutine of the first update and by the tick loop: in pc, the     *)
(* first of them takes the place of the handler when it runs a cycle.        *)

legacyOnly == UNCHANGED <<now, offersArg, bot, fetch, loop, clean, redirect>>

\* updateAndNotify: UpdateOffers from Lock to Unlock, and notifyUsers and
\* SaveState to come when there are new offers
LegacyCycleUpdate(t, offers) ==
    /\ pc[t] = "idle"
    /\ mutex = Unlocked
    /\ UpdateOffersBody(offers)
    /\ LET new == UpdateLoop(offers, 1, KnownOffers, << >>).newOffers
       IN  /\ ret' = Ret(new, FALSE, NoErr)
           /\ local' = [local EXCEPT ![t] = Request("updateAndNotify", 0, EmptyStr, new)]
           /\ pc' = [pc EXCEPT ![t] = IF Len(new) > 0 THEN "notifyUsers" ELSE "idle"]
    /\ call' = Call("UpdateOffers", 0, EmptyStr, FALSE)
    /\ noSave
    /\ UNCHANGED mutex
    /\ legacyOnly

\* notifyUsers from Lock to Unlock: every user with the notifications on has
\* the first NotifyLimit offers marked as seen, is sent the message and, when
\* the message is accepted (the users in accepted), gets LastNotified set
LegacyCycleNotify(t, accepted) ==
    /\ pc[t] = "notifyUsers"
    /\ mutex = Unlocked
    /\ accepted \subseteq {id \in DOMAIN Users : Users[id].Notifications}
    /\ Users' = [id \in DOMAIN Users |->
                    IF ~Users[id].Notifications
                    THEN Users[id]
                    ELSE [Users[id] EXCEPT
                            !.SeenOffers = @ \cup
                                {local[t].offers[i].Link :
                                    i \in {j \in DOMAIN local[t].offers : j <= NotifyLimit}},
                            !.LastNotified = IF id \in accepted THEN now ELSE @]]
    /\ pc' = [pc EXCEPT ![t] = "SaveState"]
    /\ call' = Call("notifyUsers", 0, EmptyStr, FALSE)
    /\ ret' = Ret(<< >>, FALSE, NoErr)
    /\ noSave
    /\ UNCHANGED <<KnownOffers, LastUpdated, mutex, local>>
    /\ legacyOnly

\* SaveState: Lock, the copy of the state, Unlock
LegacySaveCopy(t) ==
    /\ pc[t] = "SaveState"
    /\ mutex = Unlocked
    /\ \E data \in StateCopies(Users, KnownOffers, LastUpdated) :
          local' = [local EXCEPT ![t].data = data]
    /\ pc' = [pc EXCEPT ![t] = "write"]
    /\ UNCHANGED <<Users, KnownOffers, LastUpdated, mutex, disk, saveErr, call, ret>>
    /\ legacyOnly

\* SaveState: MkdirAll, MarshalIndent of the copy, WriteFile, and the return
\* to updateAndNotify, which returns, or to a caller that has its Unlock to do
LegacySaveWrite(t, outcome) ==
    /\ pc[t] = "write"
    /\ disk' = CASE outcome = "ok" -> local[t].data
                 [] outcome = "writeErr" -> CorruptFile
                 [] OTHER -> disk
    /\ saveErr' = SaveError(outcome)
    /\ pc' = [pc EXCEPT ![t] = IF local[t].op = "updateAndNotify" THEN "idle" ELSE "unlock"]
    /\ local' = [local EXCEPT ![t].data = NoFile]
    /\ call' = Call("SaveState", 0, EmptyStr, FALSE)
    /\ ret' = Ret(<< >>, FALSE, saveErr')
    /\ UNCHANGED <<Users, KnownOffers, LastUpdated, mutex>>
    /\ legacyOnly

\* handleClearConfirm: "state.mutex.Lock()"
LegacyClearLock(t, chatID) ==
    /\ pc[t] = "idle"
    /\ mutex = Unlocked
    /\ mutex' = t
    /\ pc' = [pc EXCEPT ![t] = "clear"]
    /\ local' = [local EXCEPT ![t] = Request("handleClearConfirm", chatID, EmptyStr, << >>)]
    /\ UNCHANGED <<Users, KnownOffers, LastUpdated, disk, saveErr, call, ret>>
    /\ legacyOnly

\* handleClearConfirm: the user, if there is one, is reset and gets the
\* notifications on, and state.SaveState is called; else only the Unlock is left
LegacyClearReset(t) ==
    /\ pc[t] = "clear"
    /\ Users' = IF local[t].chatID \in DOMAIN Users
                THEN [Users EXCEPT ![local[t].chatID].SeenOffers = {},
                                   ![local[t].chatID].LastNotified = ZeroTime,
                                   ![local[t].chatID].Notifications = TRUE]
                ELSE Users
    /\ UNCHANGED <<KnownOffers, LastUpdated>>
    /\ pc' = [pc EXCEPT ![t] = IF local[t].chatID \in DOMAIN Users
                                THEN "SaveState" ELSE "unlock"]
    /\ UNCHANGED <<mutex, local, disk, saveErr, call, ret>>
    /\ legacyOnly

\* CleanupInactiveUsers: "bs.mutex.Lock()"
LegacyCleanupLock(t) ==
    /\ pc[t] = "idle"
    /\ mutex = Unlocked
    /\ mutex' = t
    /\ pc' = [pc EXCEPT ![t] = "cleanup"]
    /\ local' = [local EXCEPT ![t] = Request("CleanupInactiveUsers", 0, EmptyStr, << >>)]
    /\ UNCHANGED <<Users, KnownOffers, LastUpdated, disk, saveErr, call, ret>>
    /\ legacyOnly

\* CleanupInactiveUsers: the inactive users deleted, "return bs.SaveState(dataDir)"
LegacyCleanupDelete(t) ==
    /\ pc[t] = "cleanup"
    /\ CleanupInactiveUsersBody
    /\ pc' = [pc EXCEPT ![t] = "SaveState"]
    /\ UNCHANGED <<mutex, local, disk, saveErr, call, ret>>
    /\ legacyOnly

\* the deferred "mutex.Unlock()" and the return
LegacyUnlock(t) ==
    /\ pc[t] = "unlock"
    /\ mutex' = Unlocked
    /\ pc' = [pc EXCEPT ![t] = "idle"]
    /\ call' = Call(local[t].op, local[t].chatID, EmptyStr, FALSE)
    /\ ret' = Ret(<< >>, FALSE, NoErr)
    /\ local' = [local EXCEPT ![t] = NoRequest]
    /\ UNCHANGED <<Users, KnownOffers, LastUpdated, disk, saveErr>>
    /\ legacyOnly

NextLegacyConc ==
    \/ \E u \in TgUsers : LegacyAddUser(u, 1)
    \/ \E t \in Threads, offers \in {<<Offer(LinkA, "700")>>, <<Offer(LinkB, "700")>>} :
          LegacyCycleUpdate(t, offers)
    \/ \E t \in Threads, accepted \in SUBSET ChatIDs : LegacyCycleNotify(t, accepted)
    \/ \E t \in Threads : LegacySaveCopy(t)
    \/ \E t \in Threads, o \in {"ok", "openErr"} : LegacySaveWrite(t, o)
    \/ \E id \in ChatIDs : LegacyClearLock("handler", id)
    \/ LegacyClearReset("handler")
    \/ LegacyCleanupLock("handler")
    \/ LegacyCleanupDelete("handler")
    \/ LegacyUnlock("handler")

SpecLegacyConc == Init /\ [][NextLegacyConc]_vars

----------------------------------------------------------------------------
(* The canonical link of the specification: the link up to, and without,    *)
(* its first '?'.                                                            *)

Canonical(u) ==
    LET n == CHOOSE n \in 0..Len(u) :
                 /\ \A j \in 1..n : u[j] # "?"
                 /\ n = Len(u) \/ u[n + 1] = "?"
    IN  SubSeq(u, 1, n)

Registered(offer) == [offer EXCEPT !.Link = Canonical(offer.Link)]

Positions(offers) == [i \in 1..Len(offers) |-> i]

\* the first listing of offers with the canonical link c
First(offers, c) ==
    CHOOSE i \in 1..Len(offers) :
        /\ Canonical(offers[i].Link) = c
        /\ \A j \in 1..(i - 1) : Canonical(offers[j].Link) # c

\* listing i is not a key of known, nor of what the listings before it added
NotYetKey(offers, i, known) ==
    /\ Canonical(offers[i].Link) \notin DOMAIN known
    /\ \A j \in 1..(i - 1) : Canonical(offers[j].Link) # Canonical(offers[i].Link)

\* the step registered exactly the listings of offers at the positions new: they
\* are the result, in input order, and their canonical links are the keys added
RegistersExactly(offers, new) ==
    /\ ret'.newOffers = [k \in 1..Len(new) |-> Registered(offers[new[k]])]
    /\ DOMAIN KnownOffers' =
           DOMAIN KnownOffers \cup {Canonical(offers[new[k]].Link) : k \in 1..Len(new)}
    /\ \A k \in 1..Len(new) :
           KnownOffers'[Canonical(offers[new[k]].Link)] = Registered(offers[new[k]])

\* C1 as claimed: a listing is new iff its canonical link is not yet a key at that
\* point; the new listings are inserted under their canonical links and returned
\* in input order.
C1_NewIffNotYetKey ==
    [][call'.name = "UpdateOffers" =>
          LET offers == offersArg'.offers
          IN  RegistersExactly(offers,
                  SelectSeq(Positions(offers),
                            LAMBDA i : NotYetKey(offers, i, KnownOffers)))]_vars

\* C1 amended: a listing is new iff its canonical link is not empty and is not yet
\* a key at that point; the new listings are inserted under their canonical links
\* and are the returned sequence, in input order.
C1_NewIffNonEmptyNotYetKey ==
    [][call'.name = "UpdateOffers" =>
          LET offers == offersArg'.offers
          IN  RegistersExactly(offers,
                  SelectSeq(Positions(offers),
                            LAMBDA i : /\ Canonical(offers[i].Link) # EmptyStr
                                       /\ NotYetKey(offers, i, KnownOffers)))]_vars

\* C1 witness: UpdateOffers has returned from a call given a listing with an empty
\* canonical link after a listing that it registered.
C1_Witness ==
    /\ call.name = "UpdateOffers"
    /\ offersArg.offers = <<Offer(LinkB, "700"), Offer(LinkQ, "700")>>
    /\ ret.newOffers = <<Offer(LinkB, "700")>>
    /\ DOMAIN KnownOffers = {LinkB}

\* C2: an UpdateOffers call given the same listings as the UpdateOffers call before
\* it, with only subscriber operations in between, returns an empty sequence.
C2_DedupStable ==
    (call.name = "UpdateOffers" /\ offersArg.repeated) => ret.newOffers = << >>

\* C2 witness: the second of two calls with the same, registrable listings has
\* returned, and a subscriber exists.
C2_Witness ==
    /\ call.name = "UpdateOffers"
    /\ offersArg.repeated
    /\ offersArg.offers = <<Offer(LinkAX, "700"), Offer(LinkB, "700")>>
    /\ 1 \in DOMAIN Users
    /\ Users[1].SeenOffers = {LinkA}

\* C3: of the listings of one UpdateOffers call that share a canonical link, only
\* the first is returned and stored, under that one key: no other listing of the
\* call is returned for the link, and no link with a query string becomes a key.
C3_SameLinkOnce ==
    call.name = "UpdateOffers" =>
        LET offers == offersArg.offers
            new    == ret.newOffers
        IN  /\ \A k \in 1..Len(new) :
                   LET c == Canonical(new[k].Link)
                   IN  /\ \A m \in 1..Len(new) : Canonical(new[m].Link) = c => m = k
                       /\ new[k] = Registered(offers[First(offers, c)])
                       /\ c \in DOMAIN KnownOffers
                       /\ KnownOffers[c] = new[k]
            /\ \A i \in 1..Len(offers) :
                   offers[i].Link \in DOMAIN KnownOffers
                       => offers[i].Link = Canonical(offers[i].Link)

\* C3 witness: two listings that differ in the query string only were given, the
\* first was returned and the map holds one key.
C3_Witness ==
    /\ call.name = "UpdateOffers"
    /\ offersArg.offers = <<Offer(LinkAX, "700"), Offer(LinkAY, "800")>>
    /\ ret.newOffers = <<Offer(LinkA, "700")>>
    /\ DOMAIN KnownOffers = {LinkA}

\* C4: a step of UpdateOffers leaves every entry that KnownOffers already holds as
\* it was.
C4_KnownUntouched ==
    [][call'.name = "UpdateOffers" =>
          \A k \in DOMAIN KnownOffers :
              k \in DOMAIN KnownOffers' /\ KnownOffers'[k] = KnownOffers[k]]_vars

\* C4 witness: a call was given a known link with other fields, and the stored
\* listing still has the fields it was registered with.
C4_Witness ==
    /\ call.name = "UpdateOffers"
    /\ offersArg.offers = <<Offer(LinkAY, "800")>>
    /\ ret.newOffers = << >>
    /\ LinkA \in DOMAIN KnownOffers
    /\ KnownOffers[LinkA] = Offer(LinkA, "700")

----------------------------------------------------------------------------
(* Seen links and known listings *)

\* C5: in every state of the memory, whatever operations were called, each
\* seen link of every subscriber is a key of the known listings
C5_SeenAreKnown ==
    \A id \in DOMAIN Users : Users[id].SeenOffers \subseteq DOMAIN KnownOffers

----------------------------------------------------------------------------
(* Mutual exclusion *)

\* a goroutine between the first and the last access of its operation to
\* the users and the listings
InStore(t) == pc[t] \in {"locked", "mutated", "load_reset", "load_offers"}

\* C6: at most one goroutine at a time is inside a store operation, LoadState
\* and the normalisation of the snapshot included
C6_MutualExclusion ==
    \A t1, t2 \in Threads : (InStore(t1) /\ InStore(t2)) => t1 = t2

----------------------------------------------------------------------------
(* Persistence *)

MutatingOps ==
    {"UpdateOffers", "AddUser", "MarkOfferAsSeen", "ResetUserState",
     "SetUserNotifications", "UpdateUserLastNotified", "CleanupInactiveUsers"}

WriteFailed == saveErr \in {ErrMkdir, ErrWrite}

\* the snapshots of the normalised memory
NormalizedMemory ==
    {Snapshot(CleanUsers(Users, k), k, LastUpdated) : k \in CleanOffers(KnownOffers)}

\* C7: when a mutating operation has returned and no write of it failed, the
\* file holds the normalised state of the memory
C7_SnapshotFollowsMutation ==
    (call.name \in MutatingOps /\ ~WriteFailed) => disk \in NormalizedMemory

\* C8: when the write of the snapshot failed, the operation that made it
\* returned the failure to its caller
C8_WriteFailureReported ==
    (call.name \in MutatingOps /\ WriteFailed) => ret.err = saveErr

\* C9: when the write of the snapshot failed, the memory holds what the
\* operation changed: the listings and the update time of UpdateOffers, the
\* subscriber of AddUser, the seen link of MarkOfferAsSeen, the cleared history
\* of ResetUserState, the flag of SetUserNotifications, the time of
\* UpdateUserLastNotified, the removals of CleanupInactiveUsers
C9_MutationKept ==
    WriteFailed =>
        LET id == call.chatID
        IN  CASE call.name = "UpdateOffers" ->
                    /\ \A i \in DOMAIN offersArg.offers :
                          LET c == Canonical(offersArg.offers[i].Link)
                          IN  c # EmptyStr => c \in DOMAIN KnownOffers
                    /\ \A j \in DOMAIN ret.newOffers :
                          LET c == Canonical(ret.newOffers[j].Link)
                          IN  c \in DOMAIN KnownOffers /\ KnownOffers[c] = ret.newOffers[j]
                    /\ LastUpdated = now
              [] call.name = "AddUser" ->
                    id \in DOMAIN Users /\ Users[id].ChatID = id
              [] call.name = "MarkOfferAsSeen" ->
                    id \in DOMAIN Users => Canonical(call.link) \in Users[id].SeenOffers
              [] call.name = "ResetUserState" ->
                    /\ id \in DOMAIN Users
                    /\ Users[id].SeenOffers = {}
                    /\ Users[id].LastNotified = ZeroTime
              [] call.name = "SetUserNotifications" ->
                    id \in DOMAIN Users /\ Users[id].Notifications = call.enabled
              [] call.name = "UpdateUserLastNotified" ->
                    id \in DOMAIN Users => Users[id].LastNotified = now
              [] call.name = "CleanupInactiveUsers" ->
                    \A u \in DOMAIN Users : Users[u].LastNotified >= now - InactiveDays
              [] OTHER -> FALSE

\* UpdateOffers has returned after a failed write, with a listing it registered
\* in the memory and the file without it
C9_Witness ==
    /\ call.name = "UpdateOffers"
    /\ saveErr = ErrWrite
    /\ ret.newOffers # << >>
    /\ LinkA \in DOMAIN KnownOffers
    /\ disk.exists /\ disk.parses /\ LinkA \notin DOMAIN disk.known_offers

----------------------------------------------------------------------------
(* Save, then load *)

\* the state of the memory holds only valid entries: keys canonical and not
\* empty, listings with a link, seen links all known
ValidEntries ==
    /\ \A k \in DOMAIN KnownOffers :
          k # EmptyStr /\ Canonical(k) = k /\ KnownOffers[k].Link # EmptyStr
    /\ \A id \in DOMAIN Users : Users[id].SeenOffers \subseteq DOMAIN KnownOffers

ValidUTF8(str) == \A i \in DOMAIN str : str[i] \notin InvalidBytes

AllValidUTF8 ==
    /\ \A k \in DOMAIN KnownOffers : ValidUTF8(k) /\ ValidUTF8(KnownOffers[k].Link)
    /\ \A id \in DOMAIN Users : \A l \in Users[id].SeenOffers : ValidUTF8(l)

\* LoadState reads, with success, the file the operation before it has written
LoadsWhatWasSaved ==
    /\ saveErr = NoErr
    /\ call'.name = "LoadState"
    /\ ret'.err = NoErr

\* C10 as stated: a state with only valid entries, saved and then loaded, gives
\* the same known listings and the same subscribers
C10_RoundTrip ==
    [][(LoadsWhatWasSaved /\ ValidEntries)
          => (KnownOffers' = KnownOffers /\ Users' = Users)]_vars

\* C10: a state with only valid entries whose strings are all valid UTF-8,
\* saved and then loaded, gives the same known listings and the same subscribers
C10_RoundTripValidUTF8 ==
    [][(LoadsWhatWasSaved /\ ValidEntries /\ AllValidUTF8)
          => (KnownOffers' = KnownOffers /\ Users' = Users)]_vars

\* LoadState has loaded a saved state with a listing and a subscriber who has seen it
C10_Witness ==
    /\ call.name = "LoadState"
    /\ ret.err = NoErr
    /\ LinkA \in DOMAIN KnownOffers
    /\ 1 \in DOMAIN Users
    /\ Users[1].SeenOffers = {LinkA}
    /\ disk = Snapshot(Users, KnownOffers, LastUpdated)

----------------------------------------------------------------------------
(* Loading a snapshot *)

\* LoadState has read a file that exists and parses
LoadsFile == call'.name = "LoadState" /\ disk.exists /\ ret'.err = NoErr

\* C11: when LoadState loads a snapshot, each subscriber of the file is loaded
\* with the canonical form of every seen link that resolves to a loaded listing,
\* and with no other seen link
C11_SeenPrunedOnLoad ==
    [][LoadsFile =>
          \A id \in DOMAIN disk.users :
              disk.users[id] # NilUser =>
                  /\ id \in DOMAIN Users'
                  /\ Users'[id].SeenOffers =
                        {Canonical(l) : l \in {x \in disk.users[id].SeenOffers :
                                                  Canonical(x) \in DOMAIN KnownOffers'}}]_vars

\* LoadState has loaded a file with a seen link that resolves and one that does not
C11_Witness ==
    /\ call.name = "LoadState"
    /\ ret.err = NoErr
    /\ disk.exists /\ disk.parses
    /\ 1 \in DOMAIN disk.users /\ disk.users[1] # NilUser
    /\ disk.users[1].SeenOffers = {LinkA, LinkB}
    /\ DOMAIN disk.known_offers = {LinkA}
    /\ 1 \in DOMAIN Users /\ Users[1].SeenOffers = {LinkA}

\* a registry the operations can work on: keys canonical and not empty, listings
\* with a link, seen links all known
Usable(users, known) ==
    /\ \A k \in DOMAIN known :
          k # EmptyStr /\ Canonical(k) = k /\ known[k].Link # EmptyStr
    /\ \A id \in DOMAIN users :
          users[id] # NilUser /\ users[id].SeenOffers \subseteq DOMAIN known

\* C13: whatever the snapshot file holds, RunBot stops only when the bot API
\* cannot be created; otherwise it leaves a usable registry and goes on to start
\* the periodic loop and the loop over the updates; and LoadState of a file it
\* could read, parseable or not, leaves a usable registry
C13_MalformedSnapshotNotFatal ==
    [][/\ call'.name = "RunBot" =>
             /\ bot'.run = "running" \/ bot'.err = ErrCreateBot
             /\ bot'.run = "running" => Usable(Users', KnownOffers')
       /\ (call'.name = "LoadState" /\ ret'.err # ErrRead) =>
             Usable(Users', KnownOffers')]_vars

\* RunBot is running on a file that does not parse
C13_Witness ==
    /\ call.name = "RunBot"
    /\ bot.run = "running"
    /\ disk = CorruptFile
    /\ Users = EmptyMap /\ KnownOffers = EmptyMap

\* C14: LoadState with no snapshot file returns no error and leaves no known
\* listing and no subscriber
C14_NoFileIsEmptyState ==
    [][(call'.name = "LoadState" /\ ~disk.exists) =>
          (ret'.err = NoErr /\ Users' = EmptyMap /\ KnownOffers' = EmptyMap)]_vars

\* LoadState has returned with no file there, after an operation whose write failed
C14_Witness ==
    /\ call.name = "LoadState"
    /\ ~disk.exists
    /\ ret.err = NoErr
    /\ Users = EmptyMap /\ KnownOffers = EmptyMap
    /\ bot.run = "not started"

----------------------------------------------------------------------------
(* What a written snapshot holds *)

HasQuery(str) == \E i \in DOMAIN str : str[i] = "?"

\* C12: every snapshot a save has written is normalised, whatever the memory
\* held: no key of known_offers has a '?', no listing has an empty link, and
\* every seen offer of every user is a key of known_offers of that snapshot
C12_SnapshotNormalized ==
    (disk.exists /\ disk.parses) =>
        /\ \A k \in DOMAIN disk.known_offers :
              ~HasQuery(k) /\ disk.known_offers[k].Link # EmptyStr
        /\ \A id \in DOMAIN disk.users :
              disk.users[id].SeenOffers \subseteq DOMAIN disk.known_offers

\* a save has written the snapshot of a memory that held a key with a query
\* string, a listing without link and a seen link no listing has
C12_Witness ==
    /\ saveErr = NoErr
    /\ disk.exists /\ disk.parses
    /\ LinkAX \in DOMAIN KnownOffers /\ KnownOffers[LinkAX].Link # EmptyStr
    /\ LinkA \in DOMAIN KnownOffers /\ KnownOffers[LinkA].Link = EmptyStr
    /\ 1 \in DOMAIN Users /\ Users[1].SeenOffers = {LinkAX, LinkB}
    /\ DOMAIN disk.known_offers = {LinkA}
    /\ disk.users[1].SeenOffers = {LinkA}

----------------------------------------------------------------------------
(* What each subscriber operation changes and what it leaves alone *)

\* every subscriber but id is as before
OthersUntouched(id) ==
    \A other \in DOMAIN Users \ {id} :
        other \in DOMAIN Users' /\ Users'[other] = Users[other]

\* C15: AddUser on an absent id creates a subscriber with notifications on, no
\* seen link and the zero time; on an existing id it changes the name fields
\* only; the other subscribers and the known listings stay as they were
C15_AddUserFrame ==
    [][call'.name = "AddUser" =>
          LET id == call'.chatID
          IN  /\ DOMAIN Users' = DOMAIN Users \cup {id}
              /\ id \notin DOMAIN Users =>
                    /\ Users'[id].ChatID = id
                    /\ Users'[id].Notifications = TRUE
                    /\ Users'[id].SeenOffers = {}
                    /\ Users'[id].LastNotified = ZeroTime
              /\ id \in DOMAIN Users =>
                    \E un, fn, ln \in {"n1", "n2"} :
                        Users'[id] = [Users[id] EXCEPT !.Username = un,
                                                       !.FirstName = fn,
                                                       !.LastName = ln]
              /\ OthersUntouched(id)
              /\ KnownOffers' = KnownOffers]_vars

\* AddUser has renamed a subscriber who has a seen link, notifications off and a
\* notification time, next to another subscriber
C15_Witness ==
    /\ call.name = "AddUser"
    /\ call.chatID = 1
    /\ DOMAIN Users = {1, 2}
    /\ Users[1].Username = "n2"
    /\ Users[1].SeenOffers = {LinkA}
    /\ Users[1].Notifications = FALSE
    /\ Users[1].LastNotified = StartDay
    /\ Users[2].Username = "n1"
    /\ LinkA \in DOMAIN KnownOffers

\* C16: MarkOfferAsSeen adds the canonical link, and nothing else, to the seen
\* links of an existing subscriber; for an unknown subscriber it reports no
\* error, creates nobody and leaves the registry as it was
C16_MarkSeenExact ==
    [][call'.name = "MarkOfferAsSeen" =>
          LET id == call'.chatID
          IN  /\ Users' = IF id \in DOMAIN Users
                          THEN [Users EXCEPT ![id].SeenOffers =
                                                 @ \cup {Canonical(call'.link)}]
                          ELSE Users
              /\ KnownOffers' = KnownOffers
              /\ LastUpdated' = LastUpdated
              /\ ret'.err = NoErr]_vars

\* MarkOfferAsSeen has been called with a link that has a query string for a
\* subscriber, who has the canonical link as seen, next to another subscriber
C16_Witness ==
    /\ call.name = "MarkOfferAsSeen"
    /\ call.chatID = 1
    /\ call.link = LinkAX
    /\ DOMAIN Users = {1, 2}
    /\ Users[1].SeenOffers = {LinkA}
    /\ Users[2].SeenOffers = {}

\* C17: ResetUserState empties the seen links of the subscriber and sets its
\* notification time to the zero time, and changes nothing else of it, no other
\* subscriber and no known listing; for an unknown id it changes nothing
C17_ResetFrame ==
    [][call'.name = "ResetUserState" =>
          LET id == call'.chatID
          IN  /\ Users' = IF id \in DOMAIN Users
                          THEN [Users EXCEPT ![id].SeenOffers = {},
                                             ![id].LastNotified = ZeroTime]
                          ELSE Users
              /\ KnownOffers' = KnownOffers]_vars

\* ResetUserState has reset a subscriber with notifications off, next to a
\* subscriber who keeps a seen link and a notification time
C17_Witness ==
    /\ call.name = "ResetUserState"
    /\ call.chatID = 1
    /\ DOMAIN Users = {1, 2}
    /\ Users[1].SeenOffers = {}
    /\ Users[1].LastNotified = ZeroTime
    /\ Users[1].Notifications = FALSE
    /\ Users[2].SeenOffers = {LinkA}
    /\ Users[2].LastNotified = StartDay
    /\ LinkA \in DOMAIN KnownOffers

\* C18: SetUserNotifications returns true and stores the flag when the
\* subscriber exists; it returns false and leaves the registry as it was
\* when the subscriber does not exist
C18_SetNotificationsFound ==
    [][call'.name = "SetUserNotifications" =>
          LET id == call'.chatID
          IN  /\ ret'.found = (id \in DOMAIN Users)
              /\ Users' = IF id \in DOMAIN Users
                          THEN [Users EXCEPT ![id].Notifications = call'.enabled]
                          ELSE Users
              /\ KnownOffers' = KnownOffers
              /\ LastUpdated' = LastUpdated]_vars

\* SetUserNotifications has switched the notifications of a subscriber off
C18_Witness ==
    /\ call.name = "SetUserNotifications"
    /\ call.chatID = 1
    /\ call.enabled = FALSE
    /\ ret.found
    /\ DOMAIN Users = {1, 2}
    /\ Users[1].Notifications = FALSE
    /\ Users[2].Notifications = TRUE

\* C19: CleanupInactiveUsers removes exactly the subscribers whose notification
\* time is earlier than 30 days before now, keeps the others as they were and
\* leaves the known listings alone
C19_PurgeExact ==
    [][call'.name = "CleanupInactiveUsers" =>
          /\ DOMAIN Users' =
                {id \in DOMAIN Users : ~(Users[id].LastNotified < now - InactiveDays)}
          /\ \A id \in DOMAIN Users' : Users'[id] = Users[id]
          /\ KnownOffers' = KnownOffers]_vars

\* CleanupInactiveUsers has kept a subscriber notified exactly 30 days ago and
\* left nobody else, with a listing known
C19_Witness ==
    /\ call.name = "CleanupInactiveUsers"
    /\ DOMAIN Users = {1}
    /\ Users[1].LastNotified = now - InactiveDays
    /\ Users[1].LastNotified # ZeroTime
    /\ LinkA \in DOMAIN KnownOffers

----------------------------------------------------------------------------
(* The page limit of a fetch run *)

\* the requests a run has sent, and whether one of them failed
SentRequests(f) == SelectSeq(f.events, LAMBDA e : e.method # "sleep")

SomeRequestFailed(f) == \E i \in DOMAIN f.events : ~f.events[i].ok

\* the listings of the first n pages of the chain that starts at page url
RECURSIVE FirstPages(_, _, _)
FirstPages(site, url, n) ==
    IF url = 0 \/ n = 0
    THEN << >>
    ELSE PageOffers(site, url) \o FirstPages(site, site[url].next, n - 1)

\* C20: with maxPages = N > 0 a run sends at most N requests, and a run in which
\* no request failed returns the listings of the first N pages of the chain, or
\* of the whole chain when it is shorter, and no error, also when page N has a
\* next link
C20_PageLimit ==
    fetch.maxPages > 0 =>
        /\ Len(SentRequests(fetch)) <= fetch.maxPages
        /\ (fetch.pc = "done" /\ ~SomeRequestFailed(fetch)) =>
              /\ fetch.allOffers = FirstPages(fetch.site, 1, fetch.maxPages)
              /\ fetch.err = NoErr

\* a run with maxPages = 2 on a chain of 5 pages has returned pages 1 and 2
C20_Witness ==
    /\ fetch.pc = "done"
    /\ fetch.maxPages = 2
    /\ Len(fetch.site) = 5
    /\ fetch.nextPageURL = 3
    /\ Len(SentRequests(fetch)) = 2
    /\ fetch.allOffers = PageOffers(fetch.site, 1) \o PageOffers(fetch.site, 2)

\* C21: when the request for a page after the first fails, the run sends no
\* further request and returns the listings of the pages before it, in chain
\* order, with no error
C21_LaterPageFailureEndsRun ==
    \A i \in DOMAIN fetch.events :
        (fetch.events[i].method = "GET" /\ ~fetch.events[i].ok) =>
            /\ i = Len(fetch.events)
            /\ fetch.pc = "done"
            /\ fetch.err = NoErr
            /\ fetch.allOffers =
                   FirstPages(fetch.site, 1, Len(SentRequests(fetch)) - 1)

\* the request for page 3 failed: the run is over with the listings of pages 1, 2
C21_Witness ==
    /\ fetch.pc = "done"
    /\ Len(SentRequests(fetch)) = 3
    /\ ~fetch.events[Len(fetch.events)].ok
    /\ fetch.events[Len(fetch.events)].url = 3
    /\ fetch.err = NoErr
    /\ fetch.allOffers = PageOffers(fetch.site, 1) \o PageOffers(fetch.site, 2)
    /\ fetch.allOffers # << >>

\* C22: the first request of a run is a POST to the search URL with the form
\* body the caller gave; every later request is a GET, sent only after the
\* request before it succeeded, to the next link of the page that request read
C22_PostThenGets ==
    LET r == SentRequests(fetch)
    IN  /\ Len(r) >= 1 =>
              /\ r[1].method = "POST"
              /\ r[1].url = 1
              /\ r[1].body = fetch.formData
        /\ \A i \in 2..Len(r) :
              /\ r[i].method = "GET"
              /\ r[i - 1].ok
              /\ fetch.site[r[i - 1].url].next # 0
              /\ r[i].url = fetch.site[r[i - 1].url].next

\* a POST with the body "form2" and the GETs of pages 2 and 3 have been sent
C22_Witness ==
    LET r == SentRequests(fetch)
    IN  /\ Len(r) = 3
        /\ fetch.formData = "form2"
        /\ r[1].method = "POST" /\ r[1].body = "form2"
        /\ r[2].method = "GET" /\ r[2].url = 2
        /\ r[3].method = "GET" /\ r[3].url = 3

\* C23: a sleep separates every two successive requests of a run, the initial
\* POST and the first GET included
C23_DelayBetweenRequests ==
    \A i \in 1..(Len(fetch.events) - 1) :
        fetch.events[i].method = "sleep" \/ fetch.events[i + 1].method = "sleep"

\* whether a listing has a size, a room description or a price
HasSomeField(offer) == offer.Size # "" \/ offer.Rooms # "" \/ offer.Price # ""

\* C27: every listing the Store holds, and every listing a run has collected,
\* has a size, a room description or a price; of the containers of a page that
\* was read, exactly those with one of the three are among the listings of the
\* run, so a container with none is left out and one with a price only is kept
C27_OnlyUsableListings ==
    /\ \A k \in DOMAIN KnownOffers : HasSomeField(KnownOffers[k])
    /\ \A i \in DOMAIN fetch.events :
          (fetch.events[i].method # "sleep" /\ fetch.events[i].ok) =>
              \A j \in DOMAIN fetch.site[fetch.events[i].url].containers :
                  LET c == fetch.site[fetch.events[i].url].containers[j]
                  IN  HasSomeField(c) <=>
                          \E n \in DOMAIN fetch.allOffers : fetch.allOffers[n] = c

\* pages 1 and 2 were read and stored: the Store has the listing with a price
\* only and the one with a size only, and not the container without the three
C27_Witness ==
    /\ fetch.pc = "stored"
    /\ Len(fetch.site[1].containers) = 2
    /\ ~HasSomeField(fetch.site[1].containers[2])
    /\ fetch.site[1].containers[2].Link \notin DOMAIN KnownOffers
    /\ PageLink(1) \in DOMAIN KnownOffers
    /\ KnownOffers[PageLink(1)].Price = "700"
    /\ KnownOffers[PageLink(1)].Size = "" /\ KnownOffers[PageLink(1)].Rooms = ""
    /\ PageLink(2) \in DOMAIN KnownOffers
    /\ KnownOffers[PageLink(2)].Price = ""

\* C28: the extractor makes one listing of every container, complete or not,
\* so after the first page the run has as many listings as the page has
\* containers
C28_OneListingPerContainer ==
    (Len(SentRequests(fetch)) = 1 /\ fetch.events[1].ok) =>
        Len(fetch.allOffers) = Len(fetch.site[1].containers)

\* C30: cleanURL returns the part of the link before its first '?', and the
\* link itself when it has no '?'; called on its own result it returns that
\* result
C30_CleanURL ==
    /\ clean.calls >= 1 =>
          /\ ~HasQuery(clean.out)
          /\ ~HasQuery(clean.url) => clean.out = clean.url
          /\ HasQuery(clean.url) =>
                /\ Len(clean.out) < Len(clean.url)
                /\ clean.out = SubSeq(clean.url, 1, Len(clean.out))
                /\ clean.url[Len(clean.out) + 1] = "?"
    /\ clean.calls = 2 => clean.again = clean.out

\* cleanURL was called on "a?/?" and on its result "a"
C30_Witness ==
    /\ clean.calls = 2
    /\ clean.url = <<"a", "?", "/", "?">>
    /\ clean.out = <<"a">>
    /\ clean.again = <<"a">>

\* C24: at most one updateAndNotify is running at any time: no update of a
\* tick runs while the first update is still running
C24_OneCycleAtATime ==
    ~(loop.initial = "running" /\ loop.tick = "running")

\* C26: once periodicUpdate waits for its first update it goes on to the tick
\* updates, after the 30 seconds at the latest, whether the first update
\* returns or not; and as long as the bot runs a message can be handled
C26_GracePeriod ==
    /\ (loop.main = "select") ~> (loop.main = "ticking")
    /\ [](bot.run = "running" =>
             ENABLED (\E u \in TgUsers, id \in ChatIDs : HandleMessage(u, id, "ok")))
    /\ [](loop.main = "ticking" => (loop.initial = "done" \/ loop.waited >= GraceSeconds))

\* the 30 seconds are over, the first update is still running, the loop is at
\* its ticks and a message has just been handled
C26_Witness ==
    /\ loop.main = "ticking"
    /\ loop.initial = "running"
    /\ loop.waited >= GraceSeconds
    /\ call.name = "AddUser"
    /\ 1 \in DOMAIN Users

\* C25: the periodic goroutine never holds the mutex of the store while a
\* network call it made is under way
C25_NoLockDuringNetworkIO ==
    ~(pc["periodic"] = "send" /\ mutex = "periodic")

\* C29: what AddUser, GetUser, GetAllUsers and GetKnownOffers return are
\* copies: a caller that changes a returned subscriber or listing, the set of
\* seen links of the subscriber included, changes nothing in the registry
C29_ReadsAreCopies ==
    [][call'.name = "CallerWrite" =>
          (Users' = Users /\ KnownOffers' = KnownOffers)]_vars

\* C31: a request chain fails only when it has more than 10 redirects: a chain
\* of 10 redirects or fewer ends with its final response, a longer one with
\* the error
C31_RedirectLimit ==
    /\ redirect.pc = "ok" => redirect.chain <= 10
    /\ redirect.pc = "failed" => redirect.chain > 10
    /\ (redirect.pc = "sent" /\ redirect.chain <= 10) => redirect.err = NoErr

C39_NoNotifyWhileDisabled ==
    [][call'.name \in {"Send", "MarkOfferAsSeen"} =>
          Users[call'.chatID].Notifications]_vars

\* C33: after handleClearConfirm for a registered user, the user has no seen
\* link, the zero time as the time of the last notification, and the
\* notifications on, whatever they were before
C33_ClearResetsAndEnables ==
    [][(call'.name = "handleClearConfirm" /\ call'.chatID \in DOMAIN Users) =>
          /\ Users'[call'.chatID].SeenOffers = {}
          /\ Users'[call'.chatID].LastNotified = ZeroTime
          /\ Users'[call'.chatID].Notifications]_vars

\* C34: CleanupInactiveUsers keeps a user who was added or reset within the last
\* 30 days and has not been sent a notification yet (every user here was added
\* on or after StartDay)
C34_RecentUsersKept ==
    [][(call'.name = "CleanupInactiveUsers" /\ now - StartDay <= InactiveDays) =>
          \A id \in DOMAIN Users :
              Users[id].LastNotified = ZeroTime => id \in DOMAIN Users']_vars

\* C36: with UpdateOffers calls of two goroutines interleaved, a call returns a
\* link as new only if the link was no key of the known listings before the
\* call changed them, it is a key afterwards, no call returns a link twice,
\* and no step ever removes a key: so a link is returned as new at most once
C36_NewAtMostOnce ==
    [][
        /\ DOMAIN KnownOffers \subseteq DOMAIN KnownOffers'
        /\ \A t \in Threads :
              (pc[t] = "locked" /\ pc'[t] = "mutated") =>
                  LET new == local'[t].newOffers
                  IN  /\ \A i \in DOMAIN new :
                            /\ new[i].Link \notin DOMAIN KnownOffers
                            /\ new[i].Link \in DOMAIN KnownOffers'
                      /\ \A i, j \in DOMAIN new : new[i].Link = new[j].Link => i = j
                      /\ ret.newOffers # << >> /\ call.name = "UpdateOffers" =>
                            \A i \in DOMAIN new, j \in DOMAIN ret.newOffers :
                                new[i].Link # ret.newOffers[j].Link
    ]_vars

\* two calls at once: the one that returned got the link "a" as new, the other
\* one, given the same page under another query string, finds nothing new
C36_Witness ==
    /\ call.name = "UpdateOffers"
    /\ Len(ret.newOffers) = 1
    /\ ret.newOffers[1].Link = LinkA
    /\ \E t \in Threads :
          /\ pc[t] = "mutated"
          /\ local[t].offers = <<Offer(LinkAY, "800")>>
          /\ local[t].newOffers = << >>

\* C35: no goroutine asks for the mutex of the store while it holds it
C35_NoSelfDeadlock ==
    \A t \in Threads : ~(pc[t] = "SaveState" /\ mutex = t)

\* C37: when every goroutine has returned and the last thing done was a save
\* that wrote its file, the file is the normalised state of the memory: no
\* snapshot of an older state is written over one of a newer state
C37_SnapshotsInOrder ==
    (/\ \A t \in Threads : pc[t] = "idle"
     /\ call.name = "SaveState"
     /\ saveErr = NoErr)
        => disk \in StateCopies(Users, KnownOffers, LastUpdated)

\* C38: every key of the known listings is non-empty, has no query string
\* and is the Link of the listing stored under it, also after LoadState
C38_KeysAreCanonicalLinks ==
    \A k \in DOMAIN KnownOffers :
        /\ k # EmptyStr
        /\ ~HasQuery(k)
        /\ KnownOffers[k].Link = k

\* the last page of the site of this call links back to a page
OnCycle(f) == f.site[Len(f.site)].next # 0

\* C40: a call of FetchRentalOffers with maxPages > 0 returns on every chain
\* of pages, one with maxPages = 0 returns on a chain that ends, and a call
\* with maxPages = 0 that has returned met a page without next link or a
\* failed request: on a cycle whose requests all succeed it never returns
C40_FetchTermination ==
    /\ (fetch.pc = "post" /\ fetch.maxPages > 0) ~> (fetch.pc = "done")
    /\ (fetch.pc = "post" /\ fetch.maxPages = 0 /\ ~OnCycle(fetch)) ~> (fetch.pc = "done")
    /\ []((fetch.pc = "done" /\ fetch.maxPages = 0)
            => (fetch.nextPageURL = 0 \/ SomeRequestFailed(fetch)))
    /\ []((fetch.pc # "none" /\ fetch.maxPages = 0 /\ OnCycle(fetch)
             /\ ~SomeRequestFailed(fetch))
            => fetch.pc # "done")

\* a call with a page limit has returned on a cycle of pages, every request
\* answered, with a next link still in hand
C40_Witness ==
    /\ fetch.pc = "done"
    /\ fetch.maxPages > 0
    /\ OnCycle(fetch)
    /\ ~SomeRequestFailed(fetch)
    /\ fetch.nextPageURL # 0

============================================================================
